---- MODULE Spec2Model ----
(***************************************************************************)
(* Enemy AI engine of Cecils_Big_Game: the rule-based strategy, the        *)
(* behavior tree, the learning strategy and the dispatcher                 *)
(* (src/src/ai_engine.py), together with the agent they drive              *)
(* (src/src/enemy.py).                                                     *)
(*                                                                         *)
(* Numbers.  Positions and velocities are Python floats; here they are     *)
(* integers counting 1/Scale of a pixel.  Features of the learning         *)
(* strategy are integers counting 1/FeatureUnit.  Rewards count tenths.    *)
(* Comparisons of a distance with a range are made on the squares and are  *)
(* exact; a quotient is truncated toward zero.                             *)
(*                                                                         *)
(* Exceptions.  A called closure or agent operation either returns or      *)
(* raises an Exception; a raise is the field `raised` of the result of     *)
(* the operator that models the call, and is handled or passed on exactly  *)
(* where the code has, or has not, a try/except.                           *)
(***************************************************************************)
EXTENDS Integers, Sequences, FiniteSets, TLC

VARIABLES
    enemy,          \* the Enemy object (the agent)
    ai_type,        \* AIEngine.ai_type, the active tag
    rule_based_ai,  \* AIEngine.rule_based_ai : [rules, priorities]
    behavior_tree,  \* AIEngine.behavior_tree : [root]
    ml_ai,          \* AIEngine.ml_ai : [net, experience_buffer, training_sessions]
    call,           \* the last operation called and its inputs
    result,         \* how the last update/execute ended: returned a value or raised
    trace,          \* what the last operation evaluated and invoked, in order
    ticks,          \* number of update/execute calls made so far
    platform,       \* a Platform object of the level
    transition_manager  \* the TransitionManager of the game and its transitions

vars == <<enemy, ai_type, rule_based_ai, behavior_tree, ml_ai, call, result, trace, ticks,
          platform, transition_manager>>

(***************************************************************************)
(* Bounds and resolutions of the model                                     *)
(***************************************************************************)
Scale == 10
FeatureUnit == 1000
MaxRules == 3
MaxNodes == 5
MaxTicks == 2
MaxUpdates == 22
MaxSessions == 1
MaxChaseTicks == 3
MaxMovements == 1
MaxTransitions == 2
MaxStarts == 2
MaxPasses == 100
MaxSigmas == 6
ParamLimit == 10

(***************************************************************************)
(* Program constants                                                       *)
(***************************************************************************)
DefaultSpeed == 2
DefaultPatrolRange == 150
DefaultHealth == 1
ChaseRange == 200
JumpVelocity == 10
SeeRange == 200
ChasePriority == 10
PatrolPriority == 5
DefaultPriority == 5
DistanceClamp == 500
MaxHealth == 3
BatchSize == 10
RewardRange == 100
RewardNear == 10
RewardFar == 1
AnimationPeriod == 11
NumActions == 4
InputSize == 6
HiddenSize == 8
WeightScalePercent == 1
LearningRatePercent == 1
PlatformX == 750
PlatformY == 300
DefaultMoveSpeed == 2
FrameMs == 16

(***************************************************************************)
(* Arithmetic helpers                                                      *)
(***************************************************************************)
Abs(n) == IF n < 0 THEN -n ELSE n

Min(a, b) == IF a < b THEN a ELSE b

\* a / b truncated toward zero, b > 0
TruncDiv(a, b) == IF a < 0 THEN -((-a) \div b) ELSE a \div b

RECURSIVE SqrtSearch(_, _, _)
SqrtSearch(n, lo, hi) ==
    IF lo >= hi THEN lo
    ELSE LET mid == (lo + hi + 1) \div 2
         IN IF mid * mid <= n THEN SqrtSearch(n, mid, hi)
            ELSE SqrtSearch(n, lo, mid - 1)

\* floor of math.sqrt(n)
ISqrt(n) == SqrtSearch(n, 0, Min(n, 40000))

BoolToFeature(b) == IF b THEN FeatureUnit ELSE 0

(***************************************************************************)
(* Players and tags                                                        *)
(***************************************************************************)
NoPlayer == [present |-> FALSE, x |-> 0, y |-> 0]

Player(px, py) == [present |-> TRUE, x |-> px * Scale, y |-> py * Scale]

RULE_BASED == "rule_based"
MACHINE_LEARNING == "machine_learning"
BEHAVIOR_TREE == "behavior_tree"
SCRIPTED == "scripted"

AIType == {RULE_BASED, MACHINE_LEARNING, BEHAVIOR_TREE, SCRIPTED}

\* set_ai_type stores whatever it is given; "unrecognized" stands for any value
\* that is no member of AIType
Tags == AIType \cup {"unrecognized"}

\* the agent operations the strategies call; Faults names the one that raises
\* when it is called during the current update (or "none")
AgentOps == {"patrol", "chase_mode", "jump", "attack", "can_see_player"}

Faults == AgentOps \cup {"none"}

(***************************************************************************)
(* Events of a call, and the machine state threaded through a call         *)
(***************************************************************************)
Event(ev, id, name) == [ev |-> ev, id |-> id, name |-> name]

Machine(e, f) == [enemy |-> e, trace |-> <<>>, fault |-> f]

Log(m, ev) == [m EXCEPT !.trace = Append(@, ev)]

\* the result of calling something: the machine after it, the truth of the value
\* returned, and whether it raised instead of returning
Returned(m, v) == [m |-> m, val |-> v, raised |-> FALSE]

Raised(m) == [m |-> m, val |-> FALSE, raised |-> TRUE]

\* events of the trace with the given kind
RECURSIVE SelectEv(_, _)
SelectEv(tr, ev) ==
    IF tr = <<>> THEN <<>>
    ELSE IF Head(tr).ev = ev THEN <<Head(tr)>> \o SelectEv(Tail(tr), ev)
         ELSE SelectEv(Tail(tr), ev)

(***************************************************************************)
(* Enemy (src/src/enemy.py)                                                *)
(***************************************************************************)
NewEnemy(px, py) ==
    [x |-> px * Scale, y |-> py * Scale,
     velocity_x |-> 0, velocity_y |-> 0,
     speed |-> DefaultSpeed * Scale,
     ai_type |-> "patrol",
     start_x |-> px * Scale, start_y |-> py * Scale,
     patrol_range |-> DefaultPatrolRange * Scale,
     patrol_direction |-> 1,
     health |-> DefaultHealth,
     is_alive |-> TRUE,
     on_ground |-> TRUE,
     ai_engine |-> TRUE,
     animation_counter |-> 0,
     last_player |-> NoPlayer]

patrol_horizontal(e) ==
    LET e1 == [e EXCEPT !.velocity_x = e.speed * e.patrol_direction]
    IN IF Abs(e1.x - e1.start_x) > e1.patrol_range
       THEN [e1 EXCEPT !.patrol_direction = -e1.patrol_direction,
                       !.velocity_x = e1.speed * (-e1.patrol_direction)]
       ELSE e1

patrol_vertical(e) ==
    LET e1 == [e EXCEPT !.velocity_y = e.speed * e.patrol_direction]
    IN IF Abs(e1.y - e1.start_y) > e1.patrol_range
       THEN [e1 EXCEPT !.patrol_direction = -e1.patrol_direction,
                       !.velocity_y = e1.speed * (-e1.patrol_direction)]
       ELSE e1

\* dx*dx + dy*dy, the square of the distance from the enemy to the player
DistSq(e, p) == (p.x - e.x) * (p.x - e.x) + (p.y - e.y) * (p.y - e.y)

chase_player(e, p) ==
    LET dx == p.x - e.x
        dy == p.y - e.y
        distance == ISqrt(DistSq(e, p))
    IN IF DistSq(e, p) < (ChaseRange * Scale) * (ChaseRange * Scale)
       THEN IF DistSq(e, p) > 0
            THEN [e EXCEPT !.velocity_x = TruncDiv(dx * e.speed, distance),
                           !.velocity_y = TruncDiv(dy * (e.speed \div 2), distance)]
            ELSE e
       ELSE [e EXCEPT !.ai_type = "patrol", !.velocity_x = 0, !.velocity_y = 0]

can_see_player(e, range) ==
    IF ~e.last_player.present THEN FALSE
    ELSE DistSq(e, e.last_player) < (range * Scale) * (range * Scale)

jump(e) ==
    IF e.on_ground
    THEN [e EXCEPT !.velocity_y = -(JumpVelocity * Scale), !.on_ground = FALSE]
    ELSE e

take_damage(e) ==
    LET e1 == [e EXCEPT !.health = e.health - 1]
    IN IF e1.health <= 0 THEN [e1 EXCEPT !.is_alive = FALSE] ELSE e1

\* The agent operations as the strategies call them: the call is logged, and
\* it raises when it is the faulty operation of this update.
CallPatrol(m) ==
    LET m1 == Log(m, Event("op", <<>>, "patrol"))
    IN IF m.fault = "patrol" THEN Raised(m1)
       ELSE Returned([m1 EXCEPT !.enemy = patrol_horizontal(m1.enemy)], FALSE)

CallChaseMode(m) ==
    LET m1 == Log(m, Event("op", <<>>, "chase_mode"))
    IN IF m.fault = "chase_mode" THEN Raised(m1)
       ELSE IF m1.enemy.last_player.present
            THEN Returned([m1 EXCEPT !.enemy = chase_player(m1.enemy, m1.enemy.last_player)], FALSE)
            ELSE Returned(m1, FALSE)

CallJump(m) ==
    LET m1 == Log(m, Event("op", <<>>, "jump"))
    IN IF m.fault = "jump" THEN Raised(m1)
       ELSE Returned([m1 EXCEPT !.enemy = jump(m1.enemy)], FALSE)

CallAttack(m) ==
    LET m1 == Log(m, Event("op", <<>>, "attack"))
    IN IF m.fault = "attack" THEN Raised(m1) ELSE Returned(m1, FALSE)

CallCanSeePlayer(m, range) ==
    LET m1 == Log(m, Event("op", <<>>, "can_see_player"))
    IN IF m.fault = "can_see_player" THEN Raised(m1)
       ELSE Returned(m1, can_see_player(m1.enemy, range))

(***************************************************************************)
(* Closures: the lambdas stored in rules and tree nodes                    *)
(***************************************************************************)
Closure(fn, arg) == [fn |-> fn, arg |-> arg]

\* lambda: True, lambda: False, a lambda that raises, a lambda that returns None
ConstTrue == Closure("const_true", 0)
ConstFalse == Closure("const_false", 0)
Raises == Closure("raises", 0)
Noop == Closure("noop", 0)
\* the key 'condition' or 'action' is absent from a node
Unset == Closure("unset", 0)
\* the lambdas of add_default_patrol_ai and create_patrol_and_chase_tree
SeesPlayer == Closure("can_see_player", SeeRange)
NotSeesPlayer == Closure("not_can_see_player", SeeRange)
ChaseMode == Closure("chase_mode", 0)
Patrol == Closure("patrol", 0)

CallClosure(c, m) ==
    CASE c.fn = "const_true" -> Returned(m, TRUE)
      [] c.fn = "const_false" -> Returned(m, FALSE)
      [] c.fn = "raises" -> Raised(m)
      [] c.fn = "noop" -> Returned(m, FALSE)
      [] c.fn = "can_see_player" -> CallCanSeePlayer(m, c.arg)
      [] c.fn = "not_can_see_player" ->
            LET r == CallCanSeePlayer(m, c.arg)
            IN IF r.raised THEN r ELSE Returned(r.m, ~r.val)
      [] c.fn = "chase_mode" -> CallChaseMode(m)
      [] c.fn = "patrol" -> CallPatrol(m)
      [] OTHER -> Returned(m, FALSE)

(***************************************************************************)
(* RuleBasedAI (src/src/ai_engine.py)                                      *)
(***************************************************************************)
NewRuleBasedAI == [rules |-> <<>>, priorities |-> <<>>]

\* priorities is the dict {rule_id: priority}; rule ids count from 0, so the
\* entry of rule id i is element i+1 of the sequence
add_rule(rba, condition_func, action_func, priority) ==
    LET rule_id == Len(rba.rules)
    IN [rules |-> Append(rba.rules, [id |-> rule_id,
                                      condition |-> condition_func,
                                      action |-> action_func,
                                      priority |-> priority]),
        priorities |-> Append(rba.priorities, priority)]

add_default_patrol_ai(rba) ==
    add_rule(add_rule(rba, SeesPlayer, ChaseMode, ChasePriority),
             NotSeesPlayer, Patrol, PatrolPriority)

\* a sort that puts a rule before the rules of equal priority already placed
InsertRuleUnstable(placed, r) ==
    LET k == Cardinality({i \in 1..Len(placed) : placed[i].priority > r.priority})
    IN SubSeq(placed, 1, k) \o <<r>> \o SubSeq(placed, k + 1, Len(placed))

\* one step of sorted(..., reverse=True): r goes after every rule already placed
\* whose priority is at least its own, which keeps equal priorities in list order
InsertRule(placed, r) ==
    LET k == Cardinality({i \in 1..Len(placed) : placed[i].priority >= r.priority})
    IN SubSeq(placed, 1, k) \o <<r>> \o SubSeq(placed, k + 1, Len(placed))

RECURSIVE SortRules(_, _)
SortRules(rules, placed) ==
    IF rules = <<>> THEN placed
    ELSE SortRules(Tail(rules), InsertRule(placed, Head(rules)))

sorted_rules(rules) == SortRules(rules, <<>>)

RECURSIVE RuleScan(_, _, _)

\* the scan without the return after the action: every matching rule fires
RECURSIVE RuleScanFanOut(_, _, _)
RuleScanFanOut(sorted, i, m) ==
    IF i > Len(sorted) THEN Returned(m, FALSE)
    ELSE LET rule == sorted[i]
             c == CallClosure(rule.condition, Log(m, Event("rule_condition", <<rule.id>>, "")))
         IN IF c.raised THEN RuleScanFanOut(sorted, i + 1, c.m)
            ELSE IF c.val
                 THEN LET a == CallClosure(rule.action, Log(c.m, Event("rule_action", <<rule.id>>, "")))
                          rest == RuleScanFanOut(sorted, i + 1, a.m)
                      IN IF a.raised THEN rest ELSE Returned(rest.m, TRUE)
                 ELSE RuleScanFanOut(sorted, i + 1, c.m)

\* the scan with the try around the whole loop: the first raise ends it
RECURSIVE RuleScanAbort(_, _, _)
RuleScanAbort(sorted, i, m) ==
    IF i > Len(sorted) THEN Returned(m, FALSE)
    ELSE LET rule == sorted[i]
             c == CallClosure(rule.condition, Log(m, Event("rule_condition", <<rule.id>>, "")))
         IN IF c.raised THEN Returned(c.m, FALSE)
            ELSE IF c.val
                 THEN LET a == CallClosure(rule.action, Log(c.m, Event("rule_action", <<rule.id>>, "")))
                      IN IF a.raised THEN Returned(a.m, FALSE)
                         ELSE Returned(a.m, TRUE)
                 ELSE RuleScanAbort(sorted, i + 1, c.m)

\* the scan without try/except: a raise reaches the caller
RECURSIVE RuleScanNoCatch(_, _, _)
RuleScanNoCatch(sorted, i, m) ==
    IF i > Len(sorted) THEN Returned(m, FALSE)
    ELSE LET rule == sorted[i]
             c == CallClosure(rule.condition, Log(m, Event("rule_condition", <<rule.id>>, "")))
         IN IF c.raised THEN Raised(c.m)
            ELSE IF c.val
                 THEN LET a == CallClosure(rule.action, Log(c.m, Event("rule_action", <<rule.id>>, "")))
                      IN IF a.raised THEN Raised(a.m)
                         ELSE Returned(a.m, TRUE)
                 ELSE RuleScanNoCatch(sorted, i + 1, c.m)

\* the for loop of RuleBasedAI.update from position i of the sorted list
RuleScan(sorted, i, m) ==
    IF i > Len(sorted) THEN Returned(m, FALSE)
    ELSE LET rule == sorted[i]
             c == CallClosure(rule.condition, Log(m, Event("rule_condition", <<rule.id>>, "")))
         IN IF c.raised THEN RuleScan(sorted, i + 1, c.m)
            ELSE IF c.val
                 THEN LET a == CallClosure(rule.action, Log(c.m, Event("rule_action", <<rule.id>>, "")))
                      IN IF a.raised THEN RuleScan(sorted, i + 1, a.m)
                         ELSE Returned(a.m, TRUE)
                 ELSE RuleScan(sorted, i + 1, c.m)

RuleBasedUpdate(rba, m) == RuleScan(sorted_rules(rba.rules), 1, m)

(***************************************************************************)
(* BehaviorTree (src/src/ai_engine.py)                                     *)
(***************************************************************************)
NT_SEQUENCE == "sequence"
NT_SELECTOR == "selector"
NT_ACTION == "action"
NT_CONDITION == "condition"

Node(type, children, closure) == [type |-> type, children |-> children, closure |-> closure]

SequenceNode(children) == Node(NT_SEQUENCE, children, Unset)
SelectorNode(children) == Node(NT_SELECTOR, children, Unset)
ConditionNode(c) == Node(NT_CONDITION, <<>>, c)
ActionNode(c) == Node(NT_ACTION, <<>>, c)

\* root = None
NoRoot == Node("none", <<>>, Unset)

NewBehaviorTree == [root |-> NoRoot]

\* a default tree whose Sequence lacks the perception Condition
create_tree_without_condition(bt) ==
    [bt EXCEPT !.root =
        SelectorNode(<<SequenceNode(<<ActionNode(ChaseMode)>>), ActionNode(Patrol)>>)]

create_patrol_and_chase_tree(bt) ==
    [bt EXCEPT !.root =
        SelectorNode(<<SequenceNode(<<ConditionNode(SeesPlayer), ActionNode(ChaseMode)>>),
                       ActionNode(Patrol)>>)]

RECURSIVE ExecuteNode(_, _, _)
RECURSIVE SequenceLoop(_, _, _, _)
RECURSIVE SelectorLoop(_, _, _, _)

\* a Sequence that evaluates every child and then combines the results
RECURSIVE SequenceLoopEager(_, _, _, _)
SequenceLoopEager(children, i, path, m) ==
    IF i > Len(children) THEN Returned(m, TRUE)
    ELSE LET r == ExecuteNode(children[i], Append(path, i), m)
             rest == SequenceLoopEager(children, i + 1, path, r.m)
         IN Returned(rest.m, r.val /\ rest.val)

\* a Selector that evaluates every child and then combines the results
RECURSIVE SelectorLoopEager(_, _, _, _)
SelectorLoopEager(children, i, path, m) ==
    IF i > Len(children) THEN Returned(m, FALSE)
    ELSE LET r == ExecuteNode(children[i], Append(path, i), m)
             rest == SelectorLoopEager(children, i + 1, path, r.m)
         IN Returned(rest.m, r.val \/ rest.val)

\* a node whose except branch lets a raising Action count as done
ExecuteNodeRaiseCounts(node, path, m) ==
    LET m1 == Log(m, Event("node", path, node.type))
        r == CASE node.type = NT_SEQUENCE -> SequenceLoop(node.children, 1, path, m1)
               [] node.type = NT_SELECTOR -> SelectorLoop(node.children, 1, path, m1)
               [] node.type = NT_CONDITION ->
                     IF node.closure = Unset THEN Returned(m1, FALSE)
                     ELSE LET c == CallClosure(node.closure, Log(m1, Event("condition", path, "")))
                          IN IF c.raised THEN Returned(c.m, FALSE) ELSE Returned(c.m, c.val)
               [] node.type = NT_ACTION ->
                     IF node.closure = Unset THEN Returned(m1, TRUE)
                     ELSE LET a == CallClosure(node.closure, Log(m1, Event("action", path, "")))
                          IN Returned(a.m, TRUE)
               [] OTHER -> Returned(m1, FALSE)
    IN Returned(Log(r.m, Event("return", path, IF r.val THEN "True" ELSE "False")), r.val)

\* for child in children: if not _execute_node(child): return False; return True
SequenceLoop(children, i, path, m) ==
    IF i > Len(children) THEN Returned(m, TRUE)
    ELSE LET r == ExecuteNode(children[i], Append(path, i), m)
         IN IF ~r.val THEN Returned(r.m, FALSE)
            ELSE SequenceLoop(children, i + 1, path, r.m)

\* for child in children: if _execute_node(child): return True; return False
SelectorLoop(children, i, path, m) ==
    IF i > Len(children) THEN Returned(m, FALSE)
    ELSE LET r == ExecuteNode(children[i], Append(path, i), m)
         IN IF r.val THEN Returned(r.m, TRUE)
            ELSE SelectorLoop(children, i + 1, path, r.m)

\* _execute_node: every raise inside the node is caught by the node's own
\* try/except, which returns False
ExecuteNode(node, path, m) ==
    LET m1 == Log(m, Event("node", path, node.type))
        r == CASE node.type = NT_SEQUENCE -> SequenceLoop(node.children, 1, path, m1)
               [] node.type = NT_SELECTOR -> SelectorLoop(node.children, 1, path, m1)
               [] node.type = NT_CONDITION ->
                     IF node.closure = Unset THEN Returned(m1, FALSE)
                     ELSE LET c == CallClosure(node.closure, Log(m1, Event("condition", path, "")))
                          IN IF c.raised THEN Returned(c.m, FALSE) ELSE Returned(c.m, c.val)
               [] node.type = NT_ACTION ->
                     IF node.closure = Unset THEN Returned(m1, TRUE)
                     ELSE LET a == CallClosure(node.closure, Log(m1, Event("action", path, "")))
                          IN IF a.raised THEN Returned(a.m, FALSE) ELSE Returned(a.m, TRUE)
               [] OTHER -> Returned(m1, FALSE)
    IN Returned(Log(r.m, Event("return", path, IF r.val THEN "True" ELSE "False")), r.val)

execute(bt, m) ==
    IF bt.root # NoRoot THEN ExecuteNode(bt.root, <<>>, m)
    ELSE Returned(m, FALSE)

(***************************************************************************)
(* SimpleNeuralNet and MachineLearningAI (src/src/ai_engine.py)            *)
(*                                                                         *)
(* The parameters w1, b1, w2, b2 are random floats, so they are kept in    *)
(* symbolic form: `trained` lists the batches of states on which backward  *)
(* has made a gradient step since the random initialisation (the           *)
(* parameters are a function of the initial draw and of this list), and    *)
(* `forward_input` is the input of the last forward pass, which determines *)
(* the cached activations z1, a1, z2, a2.  The index predict returns, the  *)
(* argmax of the output of a randomly initialised network, is an input of  *)
(* the update.  predict is a function of the parameters and of its input,  *)
(* so between two gradient steps equal inputs give equal indices: `policy` *)
(* holds the pairs <<input, index>> predict has returned since the last    *)
(* gradient step.                                                          *)
(*                                                                         *)
(* Beside the symbolic form, each parameter array is kept by its numpy     *)
(* shape and by a bound on the magnitude of its entries, counted in        *)
(* 1/FeatureUnit and rounded up.  The operations on arrays below give the  *)
(* shape numpy gives and a bound that holds for every array within the     *)
(* bounds of the operands; an operation numpy refuses (shapes that do not  *)
(* match) gives NoArr.                                                     *)
(***************************************************************************)
Arr(rows, cols, bound) == [shape |-> <<rows, cols>>, bound |-> bound]

NoArr == Arr(0, 0, 0)

CeilDiv(a, b) == (a + b - 1) \div b

\* np.dot(a, b)
Dot(a, b) ==
    IF a = NoArr \/ b = NoArr \/ a.shape[2] # b.shape[1] THEN NoArr
    ELSE Arr(a.shape[1], b.shape[2], CeilDiv(a.shape[2] * a.bound * b.bound, FeatureUnit))

\* a + b where b is one row, added to every row of a
AddRow(a, b) ==
    IF a = NoArr \/ b = NoArr \/ b.shape # <<1, a.shape[2]>> THEN NoArr
    ELSE Arr(a.shape[1], a.shape[2], a.bound + b.bound)

\* an array of the shape of a whose entries are within the given bound: the
\* result of tanh, of the sigmoid, and of v * (1 - v) on the sigmoid's values
WithBound(a, bound) == IF a = NoArr THEN NoArr ELSE Arr(a.shape[1], a.shape[2], bound)

\* a.T
Transpose(a) == Arr(a.shape[2], a.shape[1], a.bound)

\* np.sum(a, axis=0, keepdims=True)
SumRows(a) == IF a = NoArr THEN NoArr ELSE Arr(1, a.shape[2], a.shape[1] * a.bound)

\* a / m
DivBy(a, m) == IF a = NoArr \/ m = 0 THEN NoArr ELSE Arr(a.shape[1], a.shape[2], CeilDiv(a.bound, m))

\* a * b, element by element, for arrays of one shape
Times(a, b) ==
    IF a = NoArr \/ b = NoArr \/ a.shape # b.shape THEN NoArr
    ELSE Arr(a.shape[1], a.shape[2], CeilDiv(a.bound * b.bound, FeatureUnit))

\* p -= rate * g, in place: g must have the shape of p (or one that broadcasts to it)
Descend(p, g, percent) ==
    IF p = NoArr \/ g = NoArr \/ g.shape # p.shape THEN NoArr
    ELSE Arr(p.shape[1], p.shape[2], p.bound + CeilDiv(percent * g.bound, 100))

\* the largest magnitude among the entries of a batch of feature vectors
MaxEntry(x) ==
    LET entries == {Abs(x[i][j]) : i \in 1..Len(x), j \in 1..InputSize} \cup {0}
    IN CHOOSE v \in entries : \A w \in entries : w <= v

\* a batch of feature vectors as an array: one row per vector
Batch(x) ==
    IF x = <<>> \/ \E i \in 1..Len(x) : Len(x[i]) # InputSize THEN NoArr
    ELSE Arr(Len(x), InputSize, MaxEntry(x))

\* np.random.randn(rows, cols) * 0.01, every draw within MaxSigmas deviations
RandomWeights(rows, cols) ==
    Arr(rows, cols, CeilDiv(MaxSigmas * WeightScalePercent * FeatureUnit, 100))

NewNet ==
    [trained |-> <<>>, forward_input |-> <<>>, policy |-> {},
     w1 |-> RandomWeights(InputSize, HiddenSize), b1 |-> Arr(1, HiddenSize, 0),
     w2 |-> RandomWeights(HiddenSize, NumActions), b2 |-> Arr(1, NumActions, 0)]

forward(net, x) == [net EXCEPT !.forward_input = x]

\* a gradient step with learning rate 1 instead of 0.01
backward_unit_rate(net, x, y, output) ==
    LET m == Len(x)
        z1 == AddRow(Dot(Batch(net.forward_input), net.w1), net.b1)
        a1 == WithBound(z1, FeatureUnit)
        z2 == AddRow(Dot(a1, net.w2), net.b2)
        dz2 == WithBound(z2, CeilDiv(FeatureUnit, 4))
        dw2 == DivBy(Dot(Transpose(a1), dz2), m)
        db2 == DivBy(SumRows(dz2), m)
        da1 == Dot(dz2, Transpose(net.w2))
        dz1 == Times(da1, WithBound(a1, FeatureUnit))
        dw1 == DivBy(Dot(Transpose(Batch(x)), dz1), m)
        db1 == DivBy(SumRows(dz1), m)
    IN [net EXCEPT !.trained = Append(@, x), !.policy = {},
                   !.w1 = Descend(@, dw1, 100),
                   !.b1 = Descend(@, db1, 100),
                   !.w2 = Descend(@, dw2, 100),
                   !.b2 = Descend(@, db2, 100)]

\* the step reads x, the cached activations and the parameters; y and output
\* enter only through output * (1 - output), which forward has fixed already.
\* The parameters change, and with them what predict returns.
\* It is given the output of the forward pass just made on x: a1 = tanh(z1) has
\* the shape of z1 = x.w1 + b1 and entries within [-1, 1], the output has the
\* shape of z2 = a1.w2 + b2 and entries within [0, 1], so that output * (1 -
\* output) has entries within [0, 1/4], and 1 - a1 * a1 has entries within [0, 1].
backward(net, x, y, output) ==
    LET m == Len(x)
        z1 == AddRow(Dot(Batch(net.forward_input), net.w1), net.b1)
        a1 == WithBound(z1, FeatureUnit)
        z2 == AddRow(Dot(a1, net.w2), net.b2)
        dz2 == WithBound(z2, CeilDiv(FeatureUnit, 4))
        dw2 == DivBy(Dot(Transpose(a1), dz2), m)
        db2 == DivBy(SumRows(dz2), m)
        da1 == Dot(dz2, Transpose(net.w2))
        dz1 == Times(da1, WithBound(a1, FeatureUnit))
        dw1 == DivBy(Dot(Transpose(Batch(x)), dz1), m)
        db1 == DivBy(SumRows(dz1), m)
    IN [net EXCEPT !.trained = Append(@, x), !.policy = {},
                   !.w1 = Descend(@, dw1, LearningRatePercent),
                   !.b1 = Descend(@, db1, LearningRatePercent),
                   !.w2 = Descend(@, dw2, LearningRatePercent),
                   !.b2 = Descend(@, db2, LearningRatePercent)]

\* the index a may be what predict returns on x
CanPredict(net, x, a) == \A q \in net.policy : q[1] = x => q[2] = a

\* predict: a forward pass on x, whose argmax is a
predict(net, x, a) == [forward(net, x) EXCEPT !.policy = @ \cup {<<x, a>>}]

NewMachineLearningAI ==
    [net |-> NewNet, experience_buffer |-> <<>>, training_sessions |-> 0]

\* the result of an operation of the learning strategy
MLReturned(m, ml, v) == [m |-> m, ml |-> ml, val |-> v, raised |-> FALSE]

MLRaised(m, ml) == [m |-> m, ml |-> ml, val |-> FALSE, raised |-> TRUE]

\* get_state: the features, or a raise (player is None, or can_see_player raises)
get_state(m, player) ==
    IF ~player.present THEN [m |-> m, state |-> <<>>, raised |-> TRUE]
    ELSE LET see == CallCanSeePlayer(m, SeeRange)
             e == m.enemy
         IN IF see.raised THEN [m |-> see.m, state |-> <<>>, raised |-> TRUE]
            ELSE [m |-> see.m,
                  state |-> << (Min(Abs(e.x - player.x), DistanceClamp * Scale) * FeatureUnit)
                                   \div (DistanceClamp * Scale),
                               BoolToFeature(see.val),
                               (e.health * FeatureUnit) \div MaxHealth,
                               BoolToFeature(e.on_ground),
                               BoolToFeature(player.y < e.y),
                               BoolToFeature(player.y > e.y) >>,
                  raised |-> FALSE]

\* an executor that patrols whatever the index
execute_action_patrol(m, action) == CallPatrol(m)

execute_action(m, action) ==
    CASE action = 0 -> CallPatrol(m)
      [] action = 1 -> CallChaseMode(m)
      [] action = 2 -> CallJump(m)
      [] action = 3 -> CallAttack(m)
      [] OTHER -> Returned(m, FALSE)

\* a training pass that does not look whether there is anything to train on
train_unguarded(ml) ==
    LET buf == ml.experience_buffer
        states == [i \in 1..Len(buf) |-> buf[i].state]
        target == [i \in 1..Len(buf) |-> <<buf[i].action, buf[i].reward>>]
        net1 == forward(ml.net, states)
        output == net1.forward_input
    IN [ml EXCEPT !.net = backward(net1, states, target, output),
                  !.training_sessions = @ + 1]

train(ml) ==
    IF ml.experience_buffer = <<>> THEN ml
    ELSE LET buf == ml.experience_buffer
             states == [i \in 1..Len(buf) |-> buf[i].state]
             target == [i \in 1..Len(buf) |-> <<buf[i].action, buf[i].reward>>]
             net1 == forward(ml.net, states)
             output == net1.forward_input
         IN [ml EXCEPT !.net = backward(net1, states, target, output),
                       !.training_sessions = @ + 1]

\* a buffer kept as a sliding window: training drops the oldest record only
remember_experience_sliding(ml, state, action, reward, next_state, done) ==
    LET ml1 == [ml EXCEPT !.experience_buffer =
                    Append(@, [state |-> state, action |-> action, reward |-> reward,
                               next_state |-> next_state, done |-> done])]
    IN IF Len(ml1.experience_buffer) >= BatchSize
       THEN [train(ml1) EXCEPT !.experience_buffer = Tail(@)]
       ELSE ml1

remember_experience(ml, state, action, reward, next_state, done) ==
    LET ml1 == [ml EXCEPT !.experience_buffer =
                    Append(@, [state |-> state, action |-> action, reward |-> reward,
                               next_state |-> next_state, done |-> done])]
    IN IF Len(ml1.experience_buffer) >= BatchSize
       THEN [train(ml1) EXCEPT !.experience_buffer = <<>>]
       ELSE ml1

\* MachineLearningAI.update with the reward granted at the range itself
MLUpdateRewardAtRange(ml, m, player, predicted) ==
    LET s0 == get_state(m, player)
    IN IF s0.raised THEN MLRaised(s0.m, ml)
       ELSE LET ml0 == [ml EXCEPT !.net = predict(ml.net, <<s0.state>>, predicted)]
                action == predicted
                x == execute_action(s0.m, action)
            IN IF x.raised THEN MLRaised(x.m, ml0)
               ELSE LET distance_to_player == Abs(x.m.enemy.x - player.x)
                        reward == IF distance_to_player <= RewardRange * Scale
                                  THEN RewardNear ELSE -RewardFar
                        next_state == get_state(x.m, player)
                    IN IF next_state.raised THEN MLRaised(next_state.m, ml0)
                       ELSE LET state == get_state(next_state.m, player)
                            IN IF state.raised THEN MLRaised(state.m, ml0)
                               ELSE MLReturned(state.m,
                                               remember_experience(ml0, state.state, action, reward,
                                                                   next_state.state, FALSE),
                                               TRUE)

\* MachineLearningAI.update storing the features the action was chosen from
MLUpdateStoresPreAction(ml, m, player, predicted) ==
    LET s0 == get_state(m, player)
    IN IF s0.raised THEN MLRaised(s0.m, ml)
       ELSE LET ml0 == [ml EXCEPT !.net = predict(ml.net, <<s0.state>>, predicted)]
                action == predicted
                x == execute_action(s0.m, action)
            IN IF x.raised THEN MLRaised(x.m, ml0)
               ELSE LET distance_to_player == Abs(x.m.enemy.x - player.x)
                        reward == IF distance_to_player < RewardRange * Scale
                                  THEN RewardNear ELSE -RewardFar
                        next_state == get_state(x.m, player)
                    IN IF next_state.raised THEN MLRaised(next_state.m, ml0)
                       ELSE MLReturned(next_state.m,
                                       remember_experience(ml0, s0.state, action, reward,
                                                           next_state.state, FALSE),
                                       TRUE)

\* MachineLearningAI.update; predicted is the index net.predict returns
MLUpdate(ml, m, player, predicted) ==
    LET s0 == get_state(m, player)
    IN IF s0.raised THEN MLRaised(s0.m, ml)
       ELSE LET ml0 == [ml EXCEPT !.net = predict(ml.net, <<s0.state>>, predicted)]
                action == predicted
                x == execute_action(s0.m, action)
            IN IF x.raised THEN MLRaised(x.m, ml0)
               ELSE LET distance_to_player == Abs(x.m.enemy.x - player.x)
                        reward == IF distance_to_player < RewardRange * Scale
                                  THEN RewardNear ELSE -RewardFar
                        next_state == get_state(x.m, player)
                    IN IF next_state.raised THEN MLRaised(next_state.m, ml0)
                       ELSE LET state == get_state(next_state.m, player)
                            IN IF state.raised THEN MLRaised(state.m, ml0)
                               ELSE MLReturned(state.m,
                                               remember_experience(ml0, state.state, action, reward,
                                                                   next_state.state, FALSE),
                                               TRUE)

\* choose_action can return predicted: the features cannot be read, or the
\* network has not answered otherwise on them since its last gradient step
CanChoose(ml, m, player, predicted) ==
    \A s0 \in {get_state(m, player)} :
        s0.raised \/ CanPredict(ml.net, <<s0.state>>, predicted)

(***************************************************************************)
(* AIEngine (src/src/ai_engine.py)                                         *)
(***************************************************************************)
\* the dispatcher returns what the strategy returned; the learner is untouched
FromStrategy(r, ml) == MLReturned(r.m, ml, r.val)

\* a dispatcher whose SCRIPTED branch is missing
EngineUpdateNoScripted(tag, rba, bt, ml, m, player, predicted) ==
    CASE tag = RULE_BASED ->
            FromStrategy(RuleBasedUpdate(rba, m), ml)
      [] tag = BEHAVIOR_TREE ->
            FromStrategy(execute(bt, m), ml)
      [] tag = MACHINE_LEARNING -> MLUpdate(ml, m, player, predicted)
      [] OTHER -> MLReturned(m, ml, FALSE)

\* a dispatcher that scans the rule list before it walks the tree
EngineUpdateRunsRules(tag, rba, bt, ml, m, player, predicted) ==
    CASE tag = RULE_BASED -> FromStrategy(RuleBasedUpdate(rba, m), ml)
      [] tag = BEHAVIOR_TREE -> FromStrategy(execute(bt, RuleBasedUpdate(rba, m).m), ml)
      [] tag = MACHINE_LEARNING -> MLUpdate(ml, m, player, predicted)
      [] tag = SCRIPTED -> FromStrategy(RuleBasedUpdate(rba, m), ml)
      [] OTHER -> MLReturned(m, ml, FALSE)

\* a dispatcher that reports an action under a tag it does not know
EngineUpdateOtherTrue(tag, rba, bt, ml, m, player, predicted) ==
    CASE tag = RULE_BASED -> FromStrategy(RuleBasedUpdate(rba, m), ml)
      [] tag = BEHAVIOR_TREE -> FromStrategy(execute(bt, m), ml)
      [] tag = MACHINE_LEARNING -> MLUpdate(ml, m, player, predicted)
      [] tag = SCRIPTED -> FromStrategy(RuleBasedUpdate(rba, m), ml)
      [] OTHER -> MLReturned(m, ml, TRUE)

\* AIEngine.update under tag, with the three strategies rba, bt, ml
EngineUpdate(tag, rba, bt, ml, m, player, predicted) ==
    CASE tag = RULE_BASED ->
            FromStrategy(RuleBasedUpdate(rba, m), ml)
      [] tag = BEHAVIOR_TREE ->
            FromStrategy(execute(bt, m), ml)
      [] tag = MACHINE_LEARNING -> MLUpdate(ml, m, player, predicted)
      [] tag = SCRIPTED ->
            FromStrategy(RuleBasedUpdate(rba, m), ml)
      [] OTHER -> MLReturned(m, ml, FALSE)

(***************************************************************************)
(* Enemy.update (src/src/enemy.py)                                         *)
(***************************************************************************)
\* an integration that lands the enemy
IntegrateAndLand(e) ==
    [e EXCEPT !.x = e.x + e.velocity_x,
              !.y = e.y + e.velocity_y,
              !.on_ground = TRUE,
              !.animation_counter = IF @ + 1 >= AnimationPeriod THEN 0 ELSE @ + 1]

\* the part of Enemy.update after the AI has run: integrate and animate
Integrate(e) ==
    [e EXCEPT !.x = e.x + e.velocity_x,
              !.y = e.y + e.velocity_y,
              !.animation_counter = IF @ + 1 >= AnimationPeriod THEN 0 ELSE @ + 1]

\* the legacy AI of an enemy without an engine
LegacyAI(e, player) ==
    CASE e.ai_type = "patrol" -> patrol_horizontal(e)
      [] e.ai_type = "chase" /\ player.present -> chase_player(e, player)
      [] e.ai_type = "patrol_vertical" -> patrol_vertical(e)
      [] OTHER -> e

\* a setter that builds the selected strategy anew
set_ai_type_reset(eng, tag) ==
    [eng EXCEPT !.ai_type = tag, !.ml_ai = NewMachineLearningAI]

\* AIEngine.set_ai_type on the engine's fields
set_ai_type(eng, tag) == [eng EXCEPT !.ai_type = tag]

Engine == [ai_type |-> ai_type, rule_based_ai |-> rule_based_ai,
           behavior_tree |-> behavior_tree, ml_ai |-> ml_ai]

(***************************************************************************)
(* Platform (src/src/platform.py)                                          *)
(***************************************************************************)
\* Platform(x, y, width, height, sprite_manager, is_moving) as PlatformGroup.
\* create_platform builds it: move_range 0, move_speed 2
PlatformAt(px, py, is_moving) ==
    [x |-> px * Scale, y |-> py * Scale,
     start_x |-> px * Scale, start_y |-> py * Scale,
     is_moving |-> is_moving,
     move_range |-> 0,
     move_speed |-> DefaultMoveSpeed * Scale,
     move_direction |-> 1,
     movement_type |-> "horizontal"]

NewPlatform == PlatformAt(PlatformX, PlatformY, FALSE)

\* Platform.update()
platform_update(p) ==
    IF ~p.is_moving THEN p
    ELSE CASE p.movement_type = "horizontal" ->
                LET p1 == [p EXCEPT !.x = p.x + p.move_speed * p.move_direction]
                IN IF Abs(p1.x - p1.start_x) > p1.move_range
                   THEN [p1 EXCEPT !.move_direction = -p1.move_direction,
                                   !.x = p1.start_x + p1.move_range * (-p1.move_direction)]
                   ELSE p1
           [] p.movement_type = "vertical" ->
                LET p1 == [p EXCEPT !.y = p.y + p.move_speed * p.move_direction]
                IN IF Abs(p1.y - p1.start_y) > p1.move_range
                   THEN [p1 EXCEPT !.move_direction = -p1.move_direction,
                                   !.y = p1.start_y + p1.move_range * (-p1.move_direction)]
                   ELSE p1
           [] OTHER -> p

\* Platform.set_movement(movement_type, move_range, move_speed)
set_movement(p, movement_type, move_range, move_speed) ==
    [p EXCEPT !.movement_type = movement_type,
              !.move_range = move_range,
              !.move_speed = move_speed,
              !.is_moving = TRUE]

(***************************************************************************)
(* ScreenTransition and TransitionManager (src/src/transitions.py)         *)
(*                                                                         *)
(* A transition is an object: `id` stands for its identity, by which the   *)
(* manager's list.remove finds it.  `starts` counts the calls of start.    *)
(***************************************************************************)
ScreenTransition(id, duration_ms) ==
    [id |-> id, duration_ms |-> duration_ms, elapsed_ms |-> 0,
     is_active |-> FALSE, fade_out |-> FALSE, starts |-> 0]

\* ScreenTransition.start(fade_out)
start(t, fade_out) ==
    [t EXCEPT !.is_active = TRUE, !.elapsed_ms = 0, !.fade_out = fade_out,
              !.starts = @ + 1]

\* ScreenTransition.update(delta_ms): the transition after the call and the
\* value returned
transition_update(t, delta_ms) ==
    IF ~t.is_active THEN [t |-> t, val |-> FALSE]
    ELSE LET t1 == [t EXCEPT !.elapsed_ms = @ + delta_ms]
         IN IF t1.elapsed_ms >= t1.duration_ms
            THEN [t |-> [t1 EXCEPT !.is_active = FALSE], val |-> TRUE]
            ELSE [t |-> t1, val |-> FALSE]

NewTransitionManager == [transitions |-> <<>>, created |-> 0]

\* TransitionManager.create_level_transition(duration_ms)
create_level_transition(tm, duration_ms) ==
    [tm EXCEPT !.transitions = Append(@, ScreenTransition(tm.created + 1, duration_ms)),
               !.created = @ + 1]

NotCompleted(r) == ~r.val

\* TransitionManager.update(): every active transition is updated by one frame,
\* and those whose update returned True are removed from the list
manager_update(tm) ==
    LET updated == [i \in 1..Len(tm.transitions) |->
                       IF tm.transitions[i].is_active
                       THEN transition_update(tm.transitions[i], FrameMs)
                       ELSE [t |-> tm.transitions[i], val |-> FALSE]]
        kept == SelectSeq(updated, NotCompleted)
    IN [tm EXCEPT !.transitions = [i \in 1..Len(kept) |-> kept[i].t]]

(***************************************************************************)
(* What a call leaves for inspection                                       *)
(***************************************************************************)
NoResult == [kind |-> "none", value |-> FALSE]

Outcome(r) == [kind |-> IF r.raised THEN "raised" ELSE "returned", value |-> r.val]

Call(op, player, fault, predicted, tag) ==
    [op |-> op, player |-> player, fault |-> fault, predicted |-> predicted, tag |-> tag]

\* the operation named as faulty was called (a fault in an operation that is never
\* called changes nothing, so it is named only when called)
FaultShows(fault, tr) ==
    fault = "none" \/ \E i \in 1..Len(tr) : tr[i].ev = "op" /\ tr[i].name = fault

(***************************************************************************)
(* The engine with its default configuration, driving one enemy            *)
(***************************************************************************)
Players == {NoPlayer, Player(500, 500), Player(400, 380)}

StartX == 350
StartY == 500

Init ==
    /\ enemy = NewEnemy(StartX, StartY)
    /\ ai_type \in {RULE_BASED, BEHAVIOR_TREE, MACHINE_LEARNING}
    /\ rule_based_ai = add_default_patrol_ai(NewRuleBasedAI)
    /\ behavior_tree = create_patrol_and_chase_tree(NewBehaviorTree)
    /\ ml_ai = NewMachineLearningAI
    /\ call = Call("init", NoPlayer, "none", 0, ai_type)
    /\ result = NoResult
    /\ trace = <<>>
    /\ ticks = 0
    /\ platform = NewPlatform
    /\ transition_manager = NewTransitionManager

\* AIEngine.update(player, level) called on the engine
AIEngineUpdate(player, fault, predicted) ==
    /\ ticks < MaxTicks
    /\ predicted = 0 \/ ai_type = MACHINE_LEARNING
    /\ ai_type = MACHINE_LEARNING =>
          CanChoose(ml_ai, Machine(enemy, fault), player, predicted)
    /\ \E r \in {EngineUpdate(ai_type, rule_based_ai, behavior_tree, ml_ai,
                             Machine(enemy, fault), player, predicted)} :
          /\ FaultShows(fault, r.m.trace)
          /\ enemy' = r.m.enemy
          /\ ml_ai' = r.ml
          /\ result' = Outcome(r)
          /\ trace' = r.m.trace
    /\ call' = Call("AIEngine.update", player, fault, predicted, ai_type)
    /\ ticks' = ticks + 1
    /\ UNCHANGED <<ai_type, rule_based_ai, behavior_tree>>
    /\ UNCHANGED <<platform, transition_manager>>

\* Enemy.update storing the player before it looks whether the enemy is alive
EnemyUpdateStoresFirst(player, fault, predicted) ==
    /\ ticks < MaxTicks
    /\ predicted = 0 \/ (ai_type = MACHINE_LEARNING /\ enemy.is_alive)
    /\ (ai_type = MACHINE_LEARNING /\ enemy.is_alive) =>
          CanChoose(ml_ai, Machine([enemy EXCEPT !.last_player = player], fault),
                    player, predicted)
    /\ IF ~enemy.is_alive
       THEN /\ fault = "none"
            /\ result' = NoResult
            /\ trace' = <<>>
            /\ enemy' = [enemy EXCEPT !.last_player = player]
            /\ UNCHANGED ml_ai
       ELSE LET e1 == [enemy EXCEPT !.last_player = player]
            IN IF e1.ai_engine
               THEN \E r \in {EngineUpdate(ai_type, rule_based_ai, behavior_tree, ml_ai,
                                          Machine(e1, fault), player, predicted)} :
                       /\ FaultShows(fault, r.m.trace)
                       /\ enemy' = IF r.raised THEN r.m.enemy ELSE Integrate(r.m.enemy)
                       /\ ml_ai' = r.ml
                       /\ result' = Outcome(r)
                       /\ trace' = r.m.trace
               ELSE /\ fault = "none"
                    /\ enemy' = Integrate(LegacyAI(e1, player))
                    /\ result' = NoResult
                    /\ trace' = <<>>
                    /\ UNCHANGED ml_ai
    /\ call' = Call("Enemy.update", player, fault, predicted, ai_type)
    /\ ticks' = ticks + 1
    /\ UNCHANGED <<ai_type, rule_based_ai, behavior_tree>>
    /\ UNCHANGED <<platform, transition_manager>>

\* Enemy.update(player, platforms): a dead enemy returns at once; otherwise the
\* player is stored, the engine runs, and the position is integrated unless the
\* engine's update raised
EnemyUpdate(player, fault, predicted) ==
    /\ ticks < MaxTicks
    /\ predicted = 0 \/ (ai_type = MACHINE_LEARNING /\ enemy.is_alive)
    /\ (ai_type = MACHINE_LEARNING /\ enemy.is_alive) =>
          CanChoose(ml_ai, Machine([enemy EXCEPT !.last_player = player], fault),
                    player, predicted)
    /\ IF ~enemy.is_alive
       THEN /\ fault = "none"
            /\ result' = NoResult
            /\ trace' = <<>>
            /\ UNCHANGED <<enemy, ml_ai>>
       ELSE LET e1 == [enemy EXCEPT !.last_player = player]
            IN IF e1.ai_engine
               THEN \E r \in {EngineUpdate(ai_type, rule_based_ai, behavior_tree, ml_ai,
                                          Machine(e1, fault), player, predicted)} :
                       /\ FaultShows(fault, r.m.trace)
                       /\ enemy' = IF r.raised THEN r.m.enemy ELSE Integrate(r.m.enemy)
                       /\ ml_ai' = r.ml
                       /\ result' = Outcome(r)
                       /\ trace' = r.m.trace
               ELSE /\ fault = "none"
                    /\ enemy' = Integrate(LegacyAI(e1, player))
                    /\ result' = NoResult
                    /\ trace' = <<>>
                    /\ UNCHANGED ml_ai
    /\ call' = Call("Enemy.update", player, fault, predicted, ai_type)
    /\ ticks' = ticks + 1
    /\ UNCHANGED <<ai_type, rule_based_ai, behavior_tree>>
    /\ UNCHANGED <<platform, transition_manager>>

\* AIEngine.set_ai_type(tag)
SetAiType(tag) ==
    /\ LET eng == set_ai_type(Engine, tag)
       IN /\ ai_type' = eng.ai_type
          /\ rule_based_ai' = eng.rule_based_ai
          /\ behavior_tree' = eng.behavior_tree
          /\ ml_ai' = eng.ml_ai
    /\ call' = Call("set_ai_type", NoPlayer, "none", 0, tag)
    /\ result' = NoResult
    /\ trace' = <<>>
    /\ UNCHANGED <<enemy, ticks>>
    /\ UNCHANGED <<platform, transition_manager>>

\* Enemy.take_damage()
TakeDamage ==
    /\ enemy.is_alive
    /\ enemy' = take_damage(enemy)
    /\ call' = Call("take_damage", NoPlayer, "none", 0, ai_type)
    /\ result' = NoResult
    /\ trace' = <<>>
    /\ UNCHANGED <<ai_type, rule_based_ai, behavior_tree, ml_ai, ticks>>
    /\ UNCHANGED <<platform, transition_manager>>

Next ==
    \/ \E p \in Players, f \in Faults, a \in 0..(NumActions - 1) : AIEngineUpdate(p, f, a)
    \/ \E p \in Players, f \in Faults, a \in 0..(NumActions - 1) : EnemyUpdate(p, f, a)
    \/ \E t \in Tags : SetAiType(t)
    \/ TakeDamage

Spec == Init /\ [][Next]_vars

(***************************************************************************)
(* The rule-based strategy on arbitrary rule lists                         *)
(***************************************************************************)
StubConditions == {ConstTrue, ConstFalse, Raises}

StubActions == {Noop, Raises}

\* add_rule stores the priority it is given, unchecked: the two ends of the
\* documented range, the default, and the first integer above the range
RulePriorities == {0, DefaultPriority, ChasePriority, ChasePriority + 1}

InitRules ==
    /\ enemy = NewEnemy(StartX, StartY)
    /\ ai_type = RULE_BASED
    /\ rule_based_ai = NewRuleBasedAI
    /\ behavior_tree = NewBehaviorTree
    /\ ml_ai = NewMachineLearningAI
    /\ call = Call("init", NoPlayer, "none", 0, ai_type)
    /\ result = NoResult
    /\ trace = <<>>
    /\ ticks = 0
    /\ platform = NewPlatform
    /\ transition_manager = NewTransitionManager

\* RuleBasedAI.add_rule(condition_func, action_func, priority)
AddRule(condition_func, action_func, priority) ==
    /\ Len(rule_based_ai.rules) < MaxRules
    /\ rule_based_ai' = add_rule(rule_based_ai, condition_func, action_func, priority)
    /\ call' = Call("add_rule", NoPlayer, "none", 0, ai_type)
    /\ result' = NoResult
    /\ trace' = <<>>
    /\ UNCHANGED <<enemy, ai_type, behavior_tree, ml_ai, ticks>>
    /\ UNCHANGED <<platform, transition_manager>>

\* RuleBasedAI.update(player, level)
RuleUpdate ==
    /\ LET r == RuleBasedUpdate(rule_based_ai, Machine(enemy, "none"))
       IN /\ enemy' = r.m.enemy
          /\ result' = Outcome(r)
          /\ trace' = r.m.trace
    /\ call' = Call("RuleBasedAI.update", NoPlayer, "none", 0, ai_type)
    /\ UNCHANGED <<ai_type, rule_based_ai, behavior_tree, ml_ai, ticks>>
    /\ UNCHANGED <<platform, transition_manager>>

NextRules ==
    \/ \E c \in StubConditions, a \in StubActions, p \in RulePriorities : AddRule(c, a, p)
    \/ RuleUpdate

SpecRules == InitRules /\ [][NextRules]_vars

(***************************************************************************)
(* The behavior tree on arbitrary trees                                    *)
(***************************************************************************)
LeafNodes ==
    {ConditionNode(ConstTrue), ConditionNode(ConstFalse), ConditionNode(Raises),
     ActionNode(Noop), ActionNode(Raises)}

RECURSIVE SubtreesOfSize(_)
RECURSIVE ForestsOfSize(_)

\* the trees with exactly n nodes that occur as children: a leaf, or a Sequence or
\* Selector with at least one child
SubtreesOfSize(n) ==
    IF n = 1 THEN LeafNodes
    ELSE {Node(ty, f, Unset) : ty \in {NT_SEQUENCE, NT_SELECTOR}, f \in ForestsOfSize(n - 1)}

\* the sequences of such trees with n nodes in all
ForestsOfSize(n) ==
    IF n = 0 THEN {<<>>}
    ELSE UNION {{<<t>> \o f : t \in SubtreesOfSize(k), f \in ForestsOfSize(n - k)} : k \in 1..n}

\* the roots with at most MaxNodes nodes: a leaf, or a Sequence or Selector of any
\* number of children, none included
Trees ==
    LeafNodes
    \cup {Node(ty, f, Unset) : ty \in {NT_SEQUENCE, NT_SELECTOR},
                               f \in UNION {ForestsOfSize(n) : n \in 0..(MaxNodes - 1)}}

InitTree ==
    /\ enemy = NewEnemy(StartX, StartY)
    /\ ai_type = BEHAVIOR_TREE
    /\ rule_based_ai = NewRuleBasedAI
    /\ behavior_tree \in {[root |-> t] : t \in Trees \cup {NoRoot}}
    /\ ml_ai = NewMachineLearningAI
    /\ call = Call("init", NoPlayer, "none", 0, ai_type)
    /\ result = NoResult
    /\ trace = <<>>
    /\ ticks = 0
    /\ platform = NewPlatform
    /\ transition_manager = NewTransitionManager

\* BehaviorTree.execute()
TreeExecute ==
    /\ LET r == execute(behavior_tree, Machine(enemy, "none"))
       IN /\ enemy' = r.m.enemy
          /\ result' = Outcome(r)
          /\ trace' = r.m.trace
    /\ call' = Call("BehaviorTree.execute", NoPlayer, "none", 0, ai_type)
    /\ UNCHANGED <<ai_type, rule_based_ai, behavior_tree, ml_ai, ticks>>
    /\ UNCHANGED <<platform, transition_manager>>

NextTree == TreeExecute

SpecTree == InitTree /\ [][NextTree]_vars

(***************************************************************************)
(* The engine driving one enemy whose operations do not raise, as those of *)
(* Enemy do not                                                            *)
(***************************************************************************)
NextLife ==
    \/ \E p \in Players, a \in 0..(NumActions - 1) : AIEngineUpdate(p, "none", a)
    \/ \E p \in Players, a \in 0..(NumActions - 1) : EnemyUpdate(p, "none", a)
    \/ \E t \in AIType : SetAiType(t)
    \/ TakeDamage

SpecLife == Init /\ [][NextLife]_vars

(***************************************************************************)
(* The learning strategy updated tick after tick against one player        *)
(***************************************************************************)
InitML ==
    /\ enemy = NewEnemy(StartX, StartY)
    /\ ai_type = MACHINE_LEARNING
    /\ rule_based_ai = add_default_patrol_ai(NewRuleBasedAI)
    /\ behavior_tree = create_patrol_and_chase_tree(NewBehaviorTree)
    /\ ml_ai = NewMachineLearningAI
    /\ \E p \in Players \ {NoPlayer} : call = Call("init", p, "none", 0, ai_type)
    /\ result = NoResult
    /\ trace = <<>>
    /\ ticks = 0
    /\ platform = NewPlatform
    /\ transition_manager = NewTransitionManager

\* MachineLearningAI.update(player, level), the player being the one of the level
MLStep(predicted) ==
    /\ ticks < MaxUpdates
    /\ CanChoose(ml_ai, Machine(enemy, "none"), call.player, predicted)
    /\ \E r \in {MLUpdate(ml_ai, Machine(enemy, "none"), call.player, predicted)} :
          /\ enemy' = r.m.enemy
          /\ ml_ai' = r.ml
          /\ result' = Outcome(r)
          /\ trace' = r.m.trace
    /\ call' = Call("MachineLearningAI.update", call.player, "none", predicted, ai_type)
    /\ ticks' = ticks + 1
    /\ UNCHANGED <<ai_type, rule_based_ai, behavior_tree>>
    /\ UNCHANGED <<platform, transition_manager>>

NextML == \E a \in 0..(NumActions - 1) : MLStep(a)

SpecML == InitML /\ [][NextML]_vars

Buffer == ml_ai.experience_buffer

(***************************************************************************)
(* The learning strategy updated tick after tick, with training passes     *)
(* also requested from outside                                             *)
(***************************************************************************)
\* MachineLearningAI.train() called directly; it returns None.  The passes that
\* find records are counted by training_sessions, which is capped here.
Train ==
    /\ Buffer = <<>> \/ ml_ai.training_sessions < MaxSessions
    /\ ml_ai' = train(ml_ai)
    /\ call' = Call("MachineLearningAI.train", call.player, "none", 0, ai_type)
    /\ result' = [kind |-> "returned", value |-> FALSE]
    /\ trace' = <<>>
    /\ UNCHANGED <<enemy, ai_type, rule_based_ai, behavior_tree, ticks>>
    /\ UNCHANGED <<platform, transition_manager>>

NextTrain ==
    \/ \E a \in 0..(NumActions - 1) : MLStep(a)
    \/ Train

SpecTrain == InitML /\ [][NextTrain]_vars

(***************************************************************************)
(* Training pass after training pass: the learning strategy updated with   *)
(* one action index against one player, from random initial weights        *)
(***************************************************************************)
InitPasses ==
    /\ enemy = NewEnemy(StartX, StartY)
    /\ ai_type = MACHINE_LEARNING
    /\ rule_based_ai = add_default_patrol_ai(NewRuleBasedAI)
    /\ behavior_tree = create_patrol_and_chase_tree(NewBehaviorTree)
    /\ ml_ai = NewMachineLearningAI
    /\ \E p \in Players \ {NoPlayer}, a \in 0..(NumActions - 1) :
          call = Call("init", p, "none", a, ai_type)
    /\ result = NoResult
    /\ trace = <<>>
    /\ ticks = 0
    /\ platform = NewPlatform
    /\ transition_manager = NewTransitionManager

\* MachineLearningAI.update(player, level) once more, the network answering as
\* before; every tenth call is a training pass
MLRepeat ==
    /\ ml_ai.training_sessions < MaxPasses
    /\ CanChoose(ml_ai, Machine(enemy, "none"), call.player, call.predicted)
    /\ \E r \in {MLUpdate(ml_ai, Machine(enemy, "none"), call.player, call.predicted)} :
          /\ enemy' = r.m.enemy
          /\ ml_ai' = r.ml
          /\ result' = Outcome(r)
          /\ trace' = r.m.trace
    /\ call' = Call("MachineLearningAI.update", call.player, "none", call.predicted, ai_type)
    /\ ticks' = ticks + 1
    /\ UNCHANGED <<ai_type, rule_based_ai, behavior_tree>>
    /\ UNCHANGED <<platform, transition_manager>>

NextPasses == MLRepeat

SpecPasses == InitPasses /\ [][NextPasses]_vars

(***************************************************************************)
(* The two default strategies, from agent states and players of all kinds  *)
(***************************************************************************)
\* player positions around the agent's start: at the agent, nearer than, at
\* and beyond 200, to the left and right, above, below and level, and no player
EquivPlayers ==
    {NoPlayer, Player(350, 500), Player(250, 500), Player(450, 500), Player(550, 500),
     Player(551, 500), Player(149, 500), Player(350, 340), Player(350, 720),
     Player(450, 380), Player(200, 620)}

\* where the agent stands, in pixels from the start of its patrol: at the start,
\* inside the patrol range, and one step beyond either end of it
AgentOffsets == {-(DefaultPatrolRange + DefaultSpeed), 0, 100, DefaultPatrolRange + DefaultSpeed}

InitEquiv ==
    /\ \E dx \in AgentOffsets, dir \in {1, -1}, ground \in BOOLEAN :
          enemy = [NewEnemy(StartX, StartY) EXCEPT !.x = (StartX + dx) * Scale,
                                                   !.patrol_direction = dir,
                                                   !.on_ground = ground]
    /\ ai_type \in {RULE_BASED, BEHAVIOR_TREE}
    /\ rule_based_ai = add_default_patrol_ai(NewRuleBasedAI)
    /\ behavior_tree = create_patrol_and_chase_tree(NewBehaviorTree)
    /\ ml_ai = NewMachineLearningAI
    /\ call = Call("init", NoPlayer, "none", 0, ai_type)
    /\ result = NoResult
    /\ trace = <<>>
    /\ ticks = 0
    /\ platform = NewPlatform
    /\ transition_manager = NewTransitionManager

NextEquiv == \E p \in EquivPlayers : EnemyUpdate(p, "none", 0)

SpecEquiv == InitEquiv /\ [][NextEquiv]_vars

(***************************************************************************)
(* The learning strategy driving one enemy against players near and far    *)
(***************************************************************************)
\* player positions around the agent's start: nearer than 100 on the x axis, at
\* 100 (right and left), just beyond 100 (which one step of patrol brings to
\* 100), far, and above the agent within 200
LearnPlayers ==
    {Player(449, 500), Player(450, 500), Player(250, 500), Player(452, 500),
     Player(900, 500), Player(400, 380)}

InitLearn ==
    /\ enemy = NewEnemy(StartX, StartY)
    /\ ai_type = MACHINE_LEARNING
    /\ rule_based_ai = add_default_patrol_ai(NewRuleBasedAI)
    /\ behavior_tree = create_patrol_and_chase_tree(NewBehaviorTree)
    /\ ml_ai = NewMachineLearningAI
    /\ call = Call("init", NoPlayer, "none", 0, ai_type)
    /\ result = NoResult
    /\ trace = <<>>
    /\ ticks = 0
    /\ platform = NewPlatform
    /\ transition_manager = NewTransitionManager

NextLearn ==
    \/ \E p \in LearnPlayers, a \in 0..(NumActions - 1) : EnemyUpdate(p, "none", a)
    \/ \E p \in LearnPlayers, a \in 0..(NumActions - 1) : AIEngineUpdate(p, "none", a)

SpecLearn == InitLearn /\ [][NextLearn]_vars

(***************************************************************************)
(* An enemy with the built-in AI ("patrol" or "chase", no engine) updated  *)
(* tick after tick by the game loop                                        *)
(***************************************************************************)
\* the player the enemy chases: to the right of the patrol range, within sight
\* of an enemy that stands at the right end of its patrol
ChasedPlayer == Player(StartX + DefaultPatrolRange + 100, StartY)

\* the same player gone out of sight
FarPlayer == Player(StartX + 2000, StartY)

\* where the enemy stands, in pixels from the start of its patrol: at the start,
\* one step inside the right end of the patrol, and further out on either side
\* (where a chase has left it)
PatrolOffsets == {0, DefaultPatrolRange - DefaultSpeed, 2 * DefaultPatrolRange,
                  -(DefaultPatrolRange + 2 * DefaultSpeed)}

InitPatrol ==
    /\ \E dx \in PatrolOffsets, dir \in {1, -1}, type \in {"patrol", "chase"} :
          enemy = [NewEnemy(StartX, StartY) EXCEPT !.x = (StartX + dx) * Scale,
                                                   !.patrol_direction = dir,
                                                   !.ai_type = type,
                                                   !.ai_engine = FALSE]
    /\ ai_type = RULE_BASED
    /\ rule_based_ai = add_default_patrol_ai(NewRuleBasedAI)
    /\ behavior_tree = create_patrol_and_chase_tree(NewBehaviorTree)
    /\ ml_ai = NewMachineLearningAI
    /\ call = Call("init", NoPlayer, "none", 0, ai_type)
    /\ result = NoResult
    /\ trace = <<>>
    /\ ticks = 0
    /\ platform = NewPlatform
    /\ transition_manager = NewTransitionManager

\* the player is out of the range of chase_player
OutOfChase(e, player) ==
    player.present /\ DistSq(e, player) >= (ChaseRange * Scale) * (ChaseRange * Scale)

\* Enemy.update(player, platforms) on a living enemy without an engine.  The
\* ticks of a chase are counted and capped; the tick that ends the chase (the
\* player is out of range) is always possible.
LegacyTick(player) ==
    /\ enemy.is_alive
    /\ ~enemy.ai_engine
    /\ (enemy.ai_type = "chase" /\ ~OutOfChase(enemy, player)) => ticks < MaxChaseTicks
    /\ enemy' = Integrate(LegacyAI([enemy EXCEPT !.last_player = player], player))
    /\ call' = Call("Enemy.update", player, "none", 0, ai_type)
    /\ result' = NoResult
    /\ trace' = <<>>
    /\ ticks' = IF enemy.ai_type = "chase" /\ ~OutOfChase(enemy, player)
                THEN ticks + 1 ELSE ticks
    /\ UNCHANGED <<ai_type, rule_based_ai, behavior_tree, ml_ai>>
    /\ UNCHANGED <<platform, transition_manager>>

NextPatrol == \E p \in {NoPlayer, ChasedPlayer, FarPlayer} : LegacyTick(p)

\* the game loop keeps updating the enemy
SpecPatrol == InitPatrol /\ [][NextPatrol]_vars /\ WF_vars(NextPatrol)

(***************************************************************************)
(* A moving platform of a level, updated frame after frame                 *)
(***************************************************************************)
\* the movements the levels give their platforms (level.py:157, 187, 190), the
\* speed in tenths of a pixel per frame
Movements == {<<"horizontal", 150, 20>>, <<"vertical", 120, 15>>, <<"vertical", 100, 18>>}

InitPlatform ==
    /\ enemy = NewEnemy(StartX, StartY)
    /\ ai_type = RULE_BASED
    /\ rule_based_ai = add_default_patrol_ai(NewRuleBasedAI)
    /\ behavior_tree = create_patrol_and_chase_tree(NewBehaviorTree)
    /\ ml_ai = NewMachineLearningAI
    /\ call = Call("init", NoPlayer, "none", 0, ai_type)
    /\ result = NoResult
    /\ trace = <<>>
    /\ ticks = 0
    /\ \E m \in BOOLEAN : platform = PlatformAt(PlatformX, PlatformY, m)
    /\ transition_manager = NewTransitionManager

\* Platform.update()
PlatformUpdate ==
    /\ platform' = platform_update(platform)
    /\ call' = Call("Platform.update", NoPlayer, "none", 0, ai_type)
    /\ UNCHANGED <<enemy, ai_type, rule_based_ai, behavior_tree, ml_ai, result, trace, ticks,
                   transition_manager>>

\* Platform.set_movement(movement_type, move_range, move_speed); the calls are
\* counted
SetMovement(movement_type, move_range, tenths) ==
    /\ ticks < MaxMovements
    /\ platform' = set_movement(platform, movement_type, move_range * Scale,
                                (tenths * Scale) \div 10)
    /\ call' = Call("Platform.set_movement", NoPlayer, "none", 0, ai_type)
    /\ ticks' = ticks + 1
    /\ UNCHANGED <<enemy, ai_type, rule_based_ai, behavior_tree, ml_ai, result, trace,
                   transition_manager>>

NextPlatform ==
    \/ PlatformUpdate
    \/ \E mv \in Movements : SetMovement(mv[1], mv[2], mv[3])

SpecPlatform == InitPlatform /\ [][NextPlatform]_vars

(***************************************************************************)
(* The screen transitions of the game: created and started by the game,    *)
(* updated by the manager on every frame, and open to calls of their own   *)
(* update                                                                  *)
(***************************************************************************)
\* durations of the transitions created, and the deltas update is called with
Durations == {FrameMs, 40}

Deltas == {10, FrameMs, 50}

\* a call on the transition of the given identity
TransitionCall(op, id, delta_ms) == [op |-> op, id |-> id, delta_ms |-> delta_ms]

Transitions == transition_manager.transitions

InitTransitions ==
    /\ enemy = NewEnemy(StartX, StartY)
    /\ ai_type = RULE_BASED
    /\ rule_based_ai = add_default_patrol_ai(NewRuleBasedAI)
    /\ behavior_tree = create_patrol_and_chase_tree(NewBehaviorTree)
    /\ ml_ai = NewMachineLearningAI
    /\ call = TransitionCall("init", 0, 0)
    /\ result = NoResult
    /\ trace = <<>>
    /\ ticks = 0
    /\ platform = NewPlatform
    /\ transition_manager = NewTransitionManager

\* TransitionManager.create_level_transition(duration_ms); the transitions
\* created are counted and capped
CreateLevelTransition(duration_ms) ==
    /\ transition_manager.created < MaxTransitions
    /\ transition_manager' = create_level_transition(transition_manager, duration_ms)
    /\ call' = TransitionCall("create_level_transition", transition_manager.created + 1, 0)
    /\ result' = NoResult
    /\ UNCHANGED <<enemy, ai_type, rule_based_ai, behavior_tree, ml_ai, trace, ticks, platform>>

\* ScreenTransition.start(fade_out) on the i-th transition of the manager; the
\* starts of a transition are counted and capped
StartTransition(i, fade_out) ==
    /\ i \in 1..Len(Transitions)
    /\ Transitions[i].starts < MaxStarts
    /\ transition_manager' =
          [transition_manager EXCEPT !.transitions[i] = start(@, fade_out)]
    /\ call' = TransitionCall("ScreenTransition.start", Transitions[i].id, 0)
    /\ result' = NoResult
    /\ UNCHANGED <<enemy, ai_type, rule_based_ai, behavior_tree, ml_ai, trace, ticks, platform>>

\* ScreenTransition.update(delta_ms) on the i-th transition of the manager
TransitionUpdate(i, delta_ms) ==
    /\ i \in 1..Len(Transitions)
    /\ \E r \in {transition_update(Transitions[i], delta_ms)} :
          /\ transition_manager' = [transition_manager EXCEPT !.transitions[i] = r.t]
          /\ result' = [kind |-> "returned", value |-> r.val]
    /\ call' = TransitionCall("ScreenTransition.update", Transitions[i].id, delta_ms)
    /\ UNCHANGED <<enemy, ai_type, rule_based_ai, behavior_tree, ml_ai, trace, ticks, platform>>

\* TransitionManager.update(), called once a frame; ticks is the parity of the
\* frame, which tells one call from the next when the call changes nothing
ManagerUpdate ==
    /\ transition_manager' = manager_update(transition_manager)
    /\ call' = TransitionCall("TransitionManager.update", 0, FrameMs)
    /\ result' = NoResult
    /\ ticks' = (ticks + 1) % 2
    /\ UNCHANGED <<enemy, ai_type, rule_based_ai, behavior_tree, ml_ai, trace, platform>>

NextTransitions ==
    \/ \E d \in Durations : CreateLevelTransition(d)
    \/ \E i \in 1..MaxTransitions, f \in BOOLEAN : StartTransition(i, f)
    \/ \E i \in 1..MaxTransitions, d \in Deltas : TransitionUpdate(i, d)
    \/ ManagerUpdate

\* the game calls the manager's update on every frame (game.py:147)
SpecTransitions == InitTransitions /\ [][NextTransitions]_vars /\ WF_vars(ManagerUpdate)

\* the transitions as the game uses them: updated by the manager only
NextManaged ==
    \/ \E d \in Durations : CreateLevelTransition(d)
    \/ \E i \in 1..MaxTransitions, f \in BOOLEAN : StartTransition(i, f)
    \/ ManagerUpdate

SpecManaged == InitTransitions /\ [][NextManaged]_vars /\ WF_vars(ManagerUpdate)

(***************************************************************************)
(* Properties of RuleBasedAI.update, checked under SpecRules               *)
(***************************************************************************)
Rules == rule_based_ai.rules

AfterRuleUpdate == call.op = "RuleBasedAI.update"

\* the rule actions invoked by the last call, in order
InvokedActions == SelectEv(trace, "rule_action")

\* the rule conditions evaluated by the last call, in order
EvaluatedConditions == SelectEv(trace, "rule_condition")

\* the stored rule with the given id
RuleOfId(id) == CHOOSE r \in {Rules[i] : i \in 1..Len(Rules)} : r.id = id

NoRuleRaises ==
    \A i \in 1..Len(Rules) : Rules[i].condition # Raises /\ Rules[i].action # Raises

\* positions of the rules whose condition is true
Matching == {i \in 1..Len(Rules) : Rules[i].condition = ConstTrue}

\* position i holds the first matching rule in descending priority order, equal
\* priorities in insertion order
FirstMatch(i) ==
    /\ i \in Matching
    /\ \A j \in Matching \ {i} :
          \/ Rules[j].priority < Rules[i].priority
          \/ Rules[j].priority = Rules[i].priority /\ j > i

\* C1: when no condition and no action raises, update invokes the action of
\* exactly one rule, the first in descending priority order (ties in insertion
\* order) whose condition is true, and returns True; when no condition is true it
\* invokes no action and returns False.
C1_FirstMatchWins ==
    (AfterRuleUpdate /\ NoRuleRaises) =>
        IF Matching = {}
        THEN result = [kind |-> "returned", value |-> FALSE] /\ InvokedActions = <<>>
        ELSE /\ result = [kind |-> "returned", value |-> TRUE]
             /\ \E i \in Matching :
                   /\ FirstMatch(i)
                   /\ InvokedActions = <<Event("rule_action", <<Rules[i].id>>, "")>>

\* three matching rules, the first inserted of lower priority than the two others,
\* which tie: the second inserted has fired
C1_Witness ==
    /\ AfterRuleUpdate /\ NoRuleRaises
    /\ Len(Rules) = 3
    /\ Matching = {1, 2, 3}
    /\ Rules[1].priority < Rules[2].priority
    /\ Rules[2].priority = Rules[3].priority
    /\ InvokedActions = <<Event("rule_action", <<1>>, "")>>
    /\ result.value

\* C2 as claimed: a call of update invokes at most one rule action, also when
\* conditions or actions raise.
C2_AtMostOneActionInvoked ==
    AfterRuleUpdate => Len(InvokedActions) <= 1

\* C2 as amended: a call of update lets at most one rule action run to completion;
\* every action invoked before the last invoked one raised, so when no invoked
\* action raises at most one action is invoked.
C2_AtMostOneActionCompletes ==
    AfterRuleUpdate =>
        /\ \A k \in 1..Len(InvokedActions) :
              k < Len(InvokedActions) => RuleOfId(InvokedActions[k].id[1]).action = Raises
        /\ Cardinality({k \in 1..Len(InvokedActions) :
                           RuleOfId(InvokedActions[k].id[1]).action # Raises}) <= 1
        /\ result.value =>
              /\ InvokedActions # <<>>
              /\ RuleOfId(InvokedActions[Len(InvokedActions)].id[1]).action # Raises

\* two actions were invoked: the first raised, the second completed
C2_Witness ==
    /\ AfterRuleUpdate
    /\ Len(InvokedActions) = 2
    /\ RuleOfId(InvokedActions[1].id[1]).action = Raises
    /\ RuleOfId(InvokedActions[2].id[1]).action = Noop
    /\ result.value

\* positions of the rules that raised during the last call: the condition was
\* evaluated and raises, or the action was invoked and raises
RaisedDuringUpdate ==
    {i \in 1..Len(Rules) :
        \/ /\ Rules[i].condition = Raises
           /\ \E k \in 1..Len(EvaluatedConditions) : EvaluatedConditions[k].id = <<Rules[i].id>>
        \/ /\ Rules[i].action = Raises
           /\ \E k \in 1..Len(InvokedActions) : InvokedActions[k].id = <<Rules[i].id>>}

RECURSIVE Without(_, _, _)
\* the rule list without the positions in drop, from position i on
Without(rules, drop, i) ==
    IF i > Len(rules) THEN <<>>
    ELSE (IF i \in drop THEN <<>> ELSE <<rules[i]>>) \o Without(rules, drop, i + 1)

\* update on the same rule list with the rules that raised removed
UpdateWithoutRaisers ==
    RuleBasedUpdate([rule_based_ai EXCEPT !.rules = Without(Rules, RaisedDuringUpdate, 1)],
                    Machine(enemy, "none"))

\* C4: a rule whose condition or action raises during update is treated as
\* non-matching: the scan goes on in priority order with the next rule, no
\* exception reaches the caller, and update returns what it returns on the same
\* rule list with the raising rules removed.
C4_RaisingRuleIsSkipped ==
    AfterRuleUpdate =>
        /\ result.kind = "returned"
        /\ \A k \in 1..Len(EvaluatedConditions) :
              EvaluatedConditions[k].id = <<sorted_rules(Rules)[k].id>>
        /\ ~result.value => Len(EvaluatedConditions) = Len(Rules)
        /\ result.value = UpdateWithoutRaisers.val
        /\ result.value =>
              InvokedActions[Len(InvokedActions)]
                  = UpdateWithoutRaisers.m.trace[Len(UpdateWithoutRaisers.m.trace)]

\* a condition raised, then an action raised, then the third rule fired
C4_Witness ==
    /\ AfterRuleUpdate
    /\ Len(Rules) = 3
    /\ Cardinality(RaisedDuringUpdate) = 2
    /\ \E i, j \in RaisedDuringUpdate :
          Rules[i].condition = Raises /\ Rules[j].condition = ConstTrue
    /\ Len(EvaluatedConditions) = 3
    /\ result = [kind |-> "returned", value |-> TRUE]

EveryConditionRaises ==
    Len(Rules) >= 1 /\ \A i \in 1..Len(Rules) : Rules[i].condition = Raises

\* C5: on a rule list in which every condition raises, update returns False,
\* invokes no rule action and lets no exception reach the caller.
C5_AllConditionsRaise ==
    (AfterRuleUpdate /\ EveryConditionRaises) =>
        /\ result = [kind |-> "returned", value |-> FALSE]
        /\ InvokedActions = <<>>
        /\ Len(EvaluatedConditions) = Len(Rules)

C5_Witness ==
    /\ AfterRuleUpdate /\ EveryConditionRaises
    /\ Len(Rules) >= 2
    /\ result = [kind |-> "returned", value |-> FALSE]

(***************************************************************************)
(* Properties of BehaviorTree.execute, checked under SpecTree              *)
(***************************************************************************)
Root == behavior_tree.root

AfterExecute == call.op = "BehaviorTree.execute" /\ Root # NoRoot

RECURSIVE NodeAt(_, _)
\* the node reached from node by the child indices in path
NodeAt(node, path) ==
    IF path = <<>> THEN node ELSE NodeAt(node.children[Head(path)], Tail(path))

\* the paths of the nodes the last call evaluated
VisitedPaths == {trace[i].id : i \in {k \in 1..Len(trace) : trace[k].ev = "node"}}

Visited(p) == p \in VisitedPaths

\* where in the trace the evaluation of the node at p began and ended
Entered(p) == CHOOSE i \in 1..Len(trace) : trace[i].ev = "node" /\ trace[i].id = p

Left(p) == CHOOSE i \in 1..Len(trace) : trace[i].ev = "return" /\ trace[i].id = p

\* the node at p reported true
Reported(p) == trace[Left(p)].name = "True"

\* the effect of the Action node at p was invoked
Ran(p) == \E i \in 1..Len(trace) : trace[i].ev = "action" /\ trace[i].id = p

\* some node below child j of the node at p was evaluated
TouchedBelow(p, j) ==
    \E i \in 1..Len(trace) :
        Len(trace[i].id) > Len(p) /\ SubSeq(trace[i].id, 1, Len(p) + 1) = Append(p, j)

RECURSIVE Holds(_)
\* what a node built from constant closures reports, read as a formula: a
\* Sequence is the conjunction and a Selector the disjunction of its children
Holds(node) ==
    CASE node.type = NT_CONDITION -> node.closure = ConstTrue
      [] node.type = NT_ACTION -> node.closure # Raises
      [] node.type = NT_SEQUENCE -> \A i \in 1..Len(node.children) : Holds(node.children[i])
      [] node.type = NT_SELECTOR -> \E i \in 1..Len(node.children) : Holds(node.children[i])
      [] OTHER -> FALSE

\* number of children of the node at p that were evaluated
VisitedChildren(p) ==
    Cardinality({i \in 1..Len(NodeAt(Root, p).children) : Visited(Append(p, i))})

\* the evaluated children of the node at p are its first k children, evaluated
\* one after the other from left to right, inside the evaluation of the node
LeftToRight(p, k) ==
    /\ \A i \in 1..Len(NodeAt(Root, p).children) : Visited(Append(p, i)) <=> i <= k
    /\ \A i \in 1..k : Entered(p) < Entered(Append(p, i)) /\ Left(Append(p, i)) < Left(p)
    /\ \A i \in 1..(k - 1) : Left(Append(p, i)) < Entered(Append(p, i + 1))
    /\ \A j \in (k + 1)..Len(NodeAt(Root, p).children) : ~TouchedBelow(p, j)

SequenceAsClaimed(p) ==
    LET kids == NodeAt(Root, p).children
        k == VisitedChildren(p)
    IN /\ LeftToRight(p, k)
       /\ \A i \in 1..(k - 1) : Reported(Append(p, i))
       /\ k < Len(kids) => k >= 1 /\ ~Reported(Append(p, k)) /\ ~Reported(p)
       /\ Reported(p) <=> \A i \in 1..Len(kids) : Holds(kids[i])
       /\ Reported(p) <=> (k = Len(kids) /\ \A i \in 1..k : Reported(Append(p, i)))

\* C6: a Sequence node evaluates its children left to right, stops at the first
\* child that reports false and returns False without evaluating a later child,
\* and returns True exactly when every child reports true.
C6_SequenceShortCircuits ==
    AfterExecute =>
        /\ result = [kind |-> "returned", value |-> Reported(<<>>)]
        /\ \A p \in VisitedPaths :
              NodeAt(Root, p).type = NT_SEQUENCE => SequenceAsClaimed(p)

\* the Sequence [true, true, false, true(action)] returned False and its fourth
\* child never ran
C6_Witness ==
    /\ AfterExecute
    /\ Root = SequenceNode(<<ConditionNode(ConstTrue), ConditionNode(ConstTrue),
                             ConditionNode(ConstFalse), ActionNode(Noop)>>)
    /\ result = [kind |-> "returned", value |-> FALSE]
    /\ Visited(<<3>>) /\ ~Visited(<<4>>) /\ ~Ran(<<4>>)

SelectorAsClaimed(p) ==
    LET kids == NodeAt(Root, p).children
        k == VisitedChildren(p)
    IN /\ LeftToRight(p, k)
       /\ \A i \in 1..(k - 1) : ~Reported(Append(p, i))
       /\ k < Len(kids) => k >= 1 /\ Reported(Append(p, k)) /\ Reported(p)
       /\ ~Reported(p) <=> \A i \in 1..Len(kids) : ~Holds(kids[i])
       /\ ~Reported(p) <=> (k = Len(kids) /\ \A i \in 1..k : ~Reported(Append(p, i)))

\* C7: a Selector node evaluates its children left to right, stops at the first
\* child that reports true and returns True without evaluating a later child, and
\* returns False exactly when every child reports false.
C7_SelectorShortCircuits ==
    AfterExecute =>
        /\ result = [kind |-> "returned", value |-> Reported(<<>>)]
        /\ \A p \in VisitedPaths :
              NodeAt(Root, p).type = NT_SELECTOR => SelectorAsClaimed(p)

\* the Selector [false, false, true(action), true(action)] returned True and only
\* its third child's action ran
C7_Witness ==
    /\ AfterExecute
    /\ Root = SelectorNode(<<ConditionNode(ConstFalse), ConditionNode(ConstFalse),
                             ActionNode(Noop), ActionNode(Noop)>>)
    /\ result = [kind |-> "returned", value |-> TRUE]
    /\ {p \in VisitedPaths : Ran(p)} = {<<3>>}

\* the path of the parent of the node at p, and the index of p among its children
Parent(p) == SubSeq(p, 1, Len(p) - 1)

IndexInParent(p) == p[Len(p)]

\* the evaluated nodes whose predicate or effect raises
RaisingVisited == {p \in VisitedPaths : NodeAt(Root, p).closure = Raises}

\* C8: a Condition or Action node whose closure raises reports false; its parent
\* goes on as for any false child (a Selector evaluates the next sibling, or
\* reports false after the last; a Sequence stops and reports false); execute lets
\* no exception reach its caller.
C8_RaisingNodeReportsFalse ==
    AfterExecute =>
        /\ result.kind = "returned"
        /\ \A p \in RaisingVisited :
              /\ ~Reported(p)
              /\ p # <<>> =>
                    LET parent == NodeAt(Root, Parent(p))
                        i == IndexInParent(p)
                    IN /\ parent.type = NT_SELECTOR =>
                             IF i < Len(parent.children)
                             THEN Visited(Append(Parent(p), i + 1))
                             ELSE ~Reported(Parent(p))
                       /\ parent.type = NT_SEQUENCE =>
                             /\ ~Reported(Parent(p))
                             /\ \A j \in (i + 1)..Len(parent.children) :
                                   ~Visited(Append(Parent(p), j))

\* an Action raised inside a Sequence: the Sequence stopped, and the Selector above
\* it went on to its next child
C8_Witness ==
    /\ AfterExecute
    /\ Root = SelectorNode(<<SequenceNode(<<ActionNode(Raises), ActionNode(Noop)>>),
                             ActionNode(Noop)>>)
    /\ Ran(<<1, 1>>) /\ ~Visited(<<1, 2>>) /\ Ran(<<2>>)
    /\ result = [kind |-> "returned", value |-> TRUE]

(***************************************************************************)
(* Properties of AIEngine, checked under Spec                              *)
(***************************************************************************)
\* C3: with the default configuration and under every tag, AIEngine.update lets no
\* error escape to its caller: when an agent operation or the perception query
\* raises while the active strategy runs, update still returns a boolean.
C3_NoErrorEscapes ==
    (call.op = "AIEngine.update" /\ call.player.present) => result.kind = "returned"

\* the kinds of event the last call logged
TraceKinds(tr) == {tr[i].ev : i \in 1..Len(tr)}

RuleKinds == {"rule_condition", "rule_action"}

TreeKinds == {"node", "condition", "action", "return"}

\* one step of AIEngine.update against the strategy its tag names
DispatchStep ==
    LET m0 == Machine(enemy, call'.fault)
        rb == RuleBasedUpdate(rule_based_ai, m0)
        bt == execute(behavior_tree, m0)
        ml == MLUpdate(ml_ai, m0, call'.player, call'.predicted)
    IN CASE ai_type \in {RULE_BASED, SCRIPTED} ->
              /\ result' = Outcome(rb) /\ trace' = rb.m.trace /\ enemy' = rb.m.enemy
              /\ ml_ai' = ml_ai
              /\ TraceKinds(trace') \cap TreeKinds = {}
              /\ "rule_condition" \in TraceKinds(trace')
         [] ai_type = BEHAVIOR_TREE ->
              /\ result' = Outcome(bt) /\ trace' = bt.m.trace /\ enemy' = bt.m.enemy
              /\ ml_ai' = ml_ai
              /\ TraceKinds(trace') \cap RuleKinds = {}
              /\ "node" \in TraceKinds(trace')
         [] ai_type = MACHINE_LEARNING ->
              /\ result' = Outcome(ml) /\ trace' = ml.m.trace /\ enemy' = ml.m.enemy
              /\ ml_ai' = ml.ml
              /\ TraceKinds(trace') \cap (RuleKinds \cup TreeKinds) = {}
         [] OTHER ->
              /\ result' = [kind |-> "returned", value |-> FALSE]
              /\ trace' = <<>>
              /\ enemy' = enemy /\ ml_ai' = ml_ai

\* C9: AIEngine.update returns the result of the rule-based strategy under
\* RULE_BASED and SCRIPTED, of the behavior tree under BEHAVIOR_TREE and of the
\* learning strategy under MACHINE_LEARNING, running no other strategy; under any
\* other tag it returns False and changes no state of the agent or of a strategy.
C9_Dispatch ==
    [][call'.op = "AIEngine.update" =>
          /\ DispatchStep
          /\ rule_based_ai' = rule_based_ai
          /\ behavior_tree' = behavior_tree
          /\ ai_type' = ai_type]_vars

\* an update under SCRIPTED ran the rule list and fired the chase rule
C9_Witness ==
    /\ call.op = "AIEngine.update"
    /\ ai_type = SCRIPTED
    /\ result = [kind |-> "returned", value |-> TRUE]
    /\ InvokedActions = <<Event("rule_action", <<0>>, "")>>

\* C10: set_ai_type changes only the active tag; the state of a strategy (rule
\* list, tree, network parameters, experience buffer, training_sessions) changes
\* only in an update made while that strategy is the active one, so switching away
\* and back finds it as its last update left it.
C10_SetAiTypeChangesOnlyTag ==
    [][/\ call'.op = "set_ai_type" =>
             /\ ai_type' = call'.tag
             /\ UNCHANGED <<enemy, rule_based_ai, behavior_tree, ml_ai>>
       /\ ml_ai' # ml_ai =>
             /\ call'.op \in {"AIEngine.update", "Enemy.update"}
             /\ ai_type = MACHINE_LEARNING /\ ai_type' = MACHINE_LEARNING
       /\ rule_based_ai' = rule_based_ai
       /\ behavior_tree' = behavior_tree]_vars

\* the engine was switched away from a learning strategy that holds experience
C10_Witness ==
    /\ call.op = "set_ai_type"
    /\ ai_type = BEHAVIOR_TREE
    /\ Len(ml_ai.experience_buffer) = 2
    /\ ml_ai.net.forward_input # <<>>

\* the last call was an update of the engine, made directly or by Enemy.update
EngineUpdated == call.op \in {"AIEngine.update", "Enemy.update"} /\ result # NoResult

\* C11: an update evaluates only the strategy of the active tag and leaves the
\* state of the inactive strategies unchanged: under BEHAVIOR_TREE no rule
\* condition or rule action is invoked and the learning strategy's buffer,
\* training_sessions and parameters stay as they were; likewise under the other
\* tags.
C11_OnlyActiveStrategyRuns ==
    [][call'.op \in {"AIEngine.update", "Enemy.update"} =>
          /\ ai_type = BEHAVIOR_TREE =>
                /\ TraceKinds(trace') \cap RuleKinds = {}
                /\ ml_ai' = ml_ai /\ rule_based_ai' = rule_based_ai
          /\ ai_type \in {RULE_BASED, SCRIPTED} =>
                /\ TraceKinds(trace') \cap TreeKinds = {}
                /\ ml_ai' = ml_ai /\ behavior_tree' = behavior_tree
          /\ ai_type = MACHINE_LEARNING =>
                /\ TraceKinds(trace') \cap (RuleKinds \cup TreeKinds) = {}
                /\ rule_based_ai' = rule_based_ai /\ behavior_tree' = behavior_tree
          /\ ai_type \notin AIType =>
                /\ trace' = <<>>
                /\ UNCHANGED <<rule_based_ai, behavior_tree, ml_ai>>]_vars

\* the engine was switched to BEHAVIOR_TREE from a learning strategy that holds
\* one record, and then walked the tree: the record is still there
C11_Witness ==
    /\ call.op = "AIEngine.update"
    /\ ai_type = BEHAVIOR_TREE
    /\ "node" \in TraceKinds(trace) /\ "action" \in TraceKinds(trace)
    /\ Len(ml_ai.experience_buffer) = 1
    /\ ml_ai.training_sessions = 0
    /\ rule_based_ai = add_default_patrol_ai(NewRuleBasedAI)

(***************************************************************************)
(* Properties of MachineLearningAI, checked under SpecML                   *)
(***************************************************************************)
\* C12: from a fresh learning strategy, after n calls of update the buffer holds
\* n mod 10 records and training_sessions is floor(n / 10): a training pass (one
\* gradient step on a batch of 10 states) runs exactly on the call that brings the
\* buffer to 10 records, the buffer is empty right after it, and between calls the
\* buffer never holds more than 9 records.
C12_BatchOfTen ==
    /\ Len(Buffer) = ticks % BatchSize
    /\ ml_ai.training_sessions = ticks \div BatchSize
    /\ Len(Buffer) <= BatchSize - 1
    /\ Len(ml_ai.net.trained) = ml_ai.training_sessions
    /\ \A i \in 1..Len(ml_ai.net.trained) : Len(ml_ai.net.trained[i]) = BatchSize
    /\ ticks > 0 => result = [kind |-> "returned", value |-> TRUE]

\* the twentieth update has just run the second training pass
C12_Witness ==
    /\ call.op = "MachineLearningAI.update"
    /\ ticks = 2 * BatchSize
    /\ Buffer = <<>>
    /\ ml_ai.training_sessions = 2

(***************************************************************************)
(* Properties of the strategies with the default configuration, under Spec *)
(***************************************************************************)
\* the behavior operations of the agent, as opposed to its perception query
BehaviorOpNames == {"patrol", "chase_mode", "jump", "attack"}

\* where in the trace a behavior operation of the agent was invoked
BehaviorOpsAt(tr) == {i \in 1..Len(tr) : tr[i].ev = "op" /\ tr[i].name \in BehaviorOpNames}

\* the names of the behavior operations invoked, in order
RECURSIVE BehaviorOps(_)
BehaviorOps(tr) ==
    IF tr = <<>> THEN <<>>
    ELSE (IF Head(tr).ev = "op" /\ Head(tr).name \in BehaviorOpNames
          THEN <<Head(tr).name>> ELSE <<>>) \o BehaviorOps(Tail(tr))

\* 0 = patrol, 1 = chase, 2 = jump, 3 = attack
ActionName(a) ==
    CASE a = 0 -> "patrol" [] a = 1 -> "chase_mode" [] a = 2 -> "jump" [] a = 3 -> "attack"

\* the last call was an update of the learning strategy with a player, in which
\* no operation of the agent raised
AfterMLUpdate ==
    /\ call.op \in {"AIEngine.update", "Enemy.update"}
    /\ call.tag = MACHINE_LEARNING
    /\ call.player.present
    /\ call.fault = "none"
    /\ result # NoResult

\* C13: a call of MachineLearningAI.update returns True and invokes exactly one of
\* the four behavior operations of the agent, the one its action index names:
\* 0 patrol, 1 chase, 2 jump, 3 attack.
C13_ExactlyOneOfFour ==
    AfterMLUpdate =>
        /\ result = [kind |-> "returned", value |-> TRUE]
        /\ call.predicted \in 0..(NumActions - 1)
        /\ BehaviorOps(trace) = <<ActionName(call.predicted)>>

\* index 2 was selected and the agent has jumped
C13_Witness ==
    /\ AfterMLUpdate
    /\ call.predicted = 2
    /\ BehaviorOps(trace) = <<"jump">>
    /\ ~enemy.on_ground
    /\ result.value

\* both default strategies run from the present state of the agent, with q the
\* player the agent perceives
DefaultsAgreeOn(q) ==
    LET m0 == Machine([enemy EXCEPT !.last_player = q], "none")
    IN \A rb \in {RuleBasedUpdate(rule_based_ai, m0)}, bt \in {execute(behavior_tree, m0)} :
          /\ ~rb.raised /\ ~bt.raised
          /\ rb.val = bt.val
          /\ rb.m.enemy = bt.m.enemy
          /\ BehaviorOps(rb.m.trace) = BehaviorOps(bt.m.trace)
          /\ BehaviorOps(bt.m.trace) =
                <<IF can_see_player(m0.enemy, SeeRange) THEN "chase_mode" ELSE "patrol">>

\* C14: the default rule list and the default tree are behaviorally equivalent:
\* run on the same agent state and player, RuleBasedAI.update and
\* BehaviorTree.execute invoke the same single behavior operation (chase when the
\* player is perceived within 200, otherwise patrol), leave the agent in the same
\* state and return the same value.
C14_DefaultsEquivalent == \A q \in EquivPlayers : DefaultsAgreeOn(q)

\* what the default tree does to the agent when it perceives q
TreeOn(q) == execute(behavior_tree, Machine([enemy EXCEPT !.last_player = q], "none"))

\* the rule list has just chased a player up and to the left, from beyond the
\* patrol range; from the state it left, the tree chases a player to the left
\* and patrols, turning round, when the player is far, and so does the rule list
C14_Witness ==
    /\ call.op = "Enemy.update" /\ call.tag = RULE_BASED
    /\ BehaviorOps(trace) = <<"chase_mode">>
    /\ enemy.velocity_x < 0 /\ enemy.velocity_y < 0
    /\ enemy.x - enemy.start_x > enemy.patrol_range
    /\ BehaviorOps(TreeOn(Player(450, 500)).m.trace) = <<"chase_mode">>
    /\ TreeOn(Player(450, 500)).m.enemy.velocity_x < 0
    /\ BehaviorOps(TreeOn(Player(149, 500)).m.trace) = <<"patrol">>
    /\ TreeOn(Player(149, 500)).m.enemy.patrol_direction = -enemy.patrol_direction
    /\ DefaultsAgreeOn(Player(450, 500)) /\ DefaultsAgreeOn(Player(149, 500))

\* the behavior operation the default strategies select when perception is
\* decided by player p: chase when p is nearer than 200, otherwise patrol
SelectedFor(e, p) ==
    IF can_see_player([e EXCEPT !.last_player = p], SeeRange) THEN "chase_mode" ELSE "patrol"

\* C15: the perception conditions evaluated in a call of AIEngine.update(player,
\* level) are decided by the player passed to that call, never by the player of an
\* earlier call or by an absent player: the rule list and the tree chase exactly
\* when that player is nearer than 200.  (AIEngine.update leaves the position of
\* the agent as it is, so the state after the call shows the distance.)
C15_PerceivesPlayerOfThisCall ==
    (/\ call.op = "AIEngine.update"
     /\ call.tag \in {RULE_BASED, BEHAVIOR_TREE, SCRIPTED}
     /\ call.fault = "none") =>
        BehaviorOps(trace) = <<SelectedFor(enemy, call.player)>>

Sign(n) == IF n > 0 THEN 1 ELSE IF n < 0 THEN -1 ELSE 0

\* the horizontal velocity chase_player gives agent e toward player p
ChaseVelocityX(e, p) == TruncDiv((p.x - e.x) * e.speed, ISqrt(DistSq(e, p)))

\* the default rule-based AI is updated with player p nearer than 200 and not
\* straight above or below the agent e
ChaseCase(e, p) ==
    /\ p.present
    /\ DistSq(e, p) < (SeeRange * Scale) * (SeeRange * Scale)
    /\ p.x # e.x

\* C16: whenever the default rule-based AI is updated with a player within
\* distance 200 and player.x different from agent.x, update returns True and
\* afterwards the horizontal velocity of the agent is nonzero, has the sign of
\* player.x - agent.x and equals (dx / distance) * speed.
C16_ChaseVelocity ==
    [][(/\ call'.op \in {"AIEngine.update", "Enemy.update"}
        /\ ai_type = RULE_BASED /\ call'.fault = "none" /\ enemy.is_alive
        /\ ChaseCase(enemy, call'.player)) =>
          /\ result' = [kind |-> "returned", value |-> TRUE]
          /\ enemy'.velocity_x # 0
          /\ Sign(enemy'.velocity_x) = Sign(call'.player.x - enemy.x)
          /\ enemy'.velocity_x = ChaseVelocityX(enemy, call'.player)]_vars

\* the same, for the updates the owning enemy makes
ChaseVelocityThroughEnemy ==
    [][(/\ call'.op = "Enemy.update"
        /\ ai_type = RULE_BASED /\ call'.fault = "none" /\ enemy.is_alive
        /\ ChaseCase(enemy, call'.player)) =>
          /\ result' = [kind |-> "returned", value |-> TRUE]
          /\ enemy'.velocity_x # 0
          /\ Sign(enemy'.velocity_x) = Sign(call'.player.x - enemy.x)
          /\ enemy'.velocity_x = ChaseVelocityX(enemy, call'.player)]_vars

\* C17: with the default configuration and under every tag, one call of
\* AIEngine.update invokes at most one of the agent's behavior operations (patrol,
\* chase, jump, attack) and returns True exactly when it invoked one.
C17_AtMostOneBehaviorOp ==
    (EngineUpdated /\ call.fault = "none") =>
        /\ Len(BehaviorOps(trace)) <= 1
        /\ result = [kind |-> "returned", value |-> TRUE] <=> Len(BehaviorOps(trace)) = 1

\* the tree has chased the player the enemy was updated with, and nothing else
C17_Witness ==
    /\ call.op = "Enemy.update" /\ call.fault = "none"
    /\ call.tag = BEHAVIOR_TREE
    /\ BehaviorOps(trace) = <<"chase_mode">>
    /\ result = [kind |-> "returned", value |-> TRUE]

\* C18: the state stored in the experience record of an update is the pre-action
\* feature vector, the one the action was selected from (the input of predict),
\* whatever the action, jump included.
C18_StoredStateIsPreAction ==
    (AfterMLUpdate /\ Buffer # <<>>) =>
        <<Buffer[Len(Buffer)].state>> = ml_ai.net.forward_input

\* the learning strategy with action a recorded in every experience
WithActions(ml, a) ==
    [ml EXCEPT !.experience_buffer = [i \in 1..Len(@) |-> [@[i] EXCEPT !.action = a]]]

\* the learning strategy with reward w recorded in every experience
WithRewards(ml, w) ==
    [ml EXCEPT !.experience_buffer = [i \in 1..Len(@) |-> [@[i] EXCEPT !.reward = w]]]

\* C19: the parameter update of a training pass depends on the recorded actions
\* (the action of a record says which output unit the gradient credits), and does
\* not depend on the recorded rewards.
C19_UpdateDependsOnActions ==
    Buffer # <<>> =>
        /\ \E a, b \in 0..(NumActions - 1) :
              train(WithActions(ml_ai, a)).net # train(WithActions(ml_ai, b)).net
        /\ \A w \in {RewardNear, -RewardFar} :
              train(WithRewards(ml_ai, w)).net = train(ml_ai).net

(***************************************************************************)
(* Properties of the rule list, checked under SpecRules                    *)
(***************************************************************************)
\* C20: the rule at position i has id i (counting from 0), and every stored
\* priority is an integer in [0,10].
C20_RuleListInvariant ==
    \A i \in 1..Len(Rules) :
        /\ Rules[i].id = i - 1
        /\ Rules[i].priority \in 0..ChasePriority
        /\ rule_based_ai.priorities[i] = Rules[i].priority

\* rules are only appended, by add_rule and one at a time, with the next id;
\* update removes and reorders nothing
RuleListAppendOnly ==
    [][/\ call'.op = "add_rule" =>
             /\ Len(rule_based_ai'.rules) = Len(Rules) + 1
             /\ SubSeq(rule_based_ai'.rules, 1, Len(Rules)) = Rules
             /\ rule_based_ai'.rules[Len(Rules) + 1].id = Len(Rules)
       /\ call'.op # "add_rule" => rule_based_ai' = rule_based_ai]_vars

(***************************************************************************)
(* Properties of MachineLearningAI.update, checked under SpecLearn         *)
(***************************************************************************)
\* the experience record the last update appended
LastRecord == Buffer[Len(Buffer)]

\* where the agent stood when the action had run: Enemy.update has since added
\* the velocity to the position, AIEngine.update has not
PostActionX == IF call.op = "Enemy.update" THEN enemy.x - enemy.velocity_x ELSE enemy.x

PostActionY == IF call.op = "Enemy.update" THEN enemy.y - enemy.velocity_y ELSE enemy.y

\* the agent as it was when the action had run
PostActionEnemy == [enemy EXCEPT !.x = PostActionX, !.y = PostActionY]

\* C21: every experience record appended by MachineLearningAI.update carries
\* reward +1.0 when the horizontal distance |agent.x - player.x| after the action
\* is strictly below 100, and -0.1 otherwise (a distance of exactly 100 gives -0.1).
C21_RewardByDistance ==
    (AfterMLUpdate /\ Buffer # <<>>) =>
        LastRecord.reward = IF Abs(PostActionX - call.player.x) < 100 * Scale
                            THEN 10 ELSE -1

\* a second update has run at a distance of exactly 100 (the agent has patrolled
\* one step towards the player at 452) and recorded -0.1, after a first one nearer
\* than 100 that recorded +1.0
C21_Witness ==
    /\ AfterMLUpdate
    /\ Len(Buffer) = 2
    /\ Abs(PostActionX - call.player.x) = 100 * Scale
    /\ LastRecord.reward = -1
    /\ Buffer[1].reward = 10

(***************************************************************************)
(* Properties of MachineLearningAI.get_state                               *)
(***************************************************************************)
\* a player standing where the agent stands
PlayerAtAgent == [present |-> TRUE, x |-> enemy.x, y |-> enemy.y]

\* the players get_state is given: those of the level and one at the agent
GivenPlayers == (Players \ {NoPlayer}) \cup {PlayerAtAgent}

\* the features get_state(p, level) returns are as claimed, for agent e
FeaturesAsClaimed(e, p) ==
    \A s \in {get_state(Machine(e, "none"), p)} :
        /\ ~s.raised
        /\ Len(s.state) = 6
        /\ s.state[1] = (Min(Abs(e.x - p.x), 500 * Scale) * FeatureUnit) \div (500 * Scale)
        /\ s.state[1] \in 0..FeatureUnit
        /\ s.state[2] \in {0, FeatureUnit}
        /\ s.state[2] = FeatureUnit <=> DistSq(e, p) < (200 * Scale) * (200 * Scale)
        /\ ~(s.state[5] = FeatureUnit /\ s.state[6] = FeatureUnit)
        /\ (e.x = p.x /\ e.y = p.y) =>
              /\ s.state[1] = 0
              /\ s.state[2] = FeatureUnit
              /\ s.state[5] = 0
              /\ s.state[6] = 0

\* C22: get_state(player, level) returns 6 features where feature 0 is
\* min(|agent.x - player.x|, 500)/500 and lies in [0,1], feature 1 is 1.0 exactly
\* when the given player is within the 200-unit perception range, and features 4
\* and 5 (player above / below) are never both 1.0; for agent and player at the
\* same position it yields distance 0.0, perceived 1.0, above 0.0 and below 0.0.
C22_GetStateFeatures == \A p \in GivenPlayers : FeaturesAsClaimed(enemy, p)

\* the features are as claimed when the agent has last been updated with the
\* player get_state is given, as it has inside Enemy.update
GetStateThroughEnemy ==
    \A p \in GivenPlayers : FeaturesAsClaimed([enemy EXCEPT !.last_player = p], p)

(***************************************************************************)
(* Properties of MachineLearningAI.train, checked under SpecTrain          *)
(***************************************************************************)
\* C23: MachineLearningAI.train invoked directly with an empty experience buffer
\* is a silent no-op: it raises nothing and leaves the network parameters, the
\* buffer and training_sessions unchanged.
C23_EmptyTrainIsNoOp ==
    [][(call'.op = "MachineLearningAI.train" /\ ml_ai.experience_buffer = <<>>) =>
            /\ result'.kind = "returned"
            /\ ml_ai'.net = ml_ai.net
            /\ ml_ai'.experience_buffer = <<>>
            /\ ml_ai'.training_sessions = ml_ai.training_sessions
            /\ enemy' = enemy]_vars

\* train has been called directly on the buffer that the tenth update left empty
\* after its own training pass
C23_Witness ==
    /\ call.op = "MachineLearningAI.train"
    /\ ticks = BatchSize
    /\ Buffer = <<>>
    /\ ml_ai.training_sessions = 1
    /\ Len(ml_ai.net.trained) = 1

(***************************************************************************)
(* Properties of SimpleNeuralNet under training, checked under SpecPasses  *)
(***************************************************************************)
Params == <<ml_ai.net.w1, ml_ai.net.b1, ml_ai.net.w2, ml_ai.net.b2>>

\* C24: across at least 100 consecutive training passes of 10 records each with
\* rewards in [-0.1, 1.0], the two weight matrices keep their construction shapes
\* (6 by 8 and 8 by 4), the bias vectors keep theirs (1 by 8 and 1 by 4), and
\* every parameter value stays finite: its magnitude stays below ParamLimit, far
\* below the largest float.
C24_ShapesAndFiniteness ==
    /\ ml_ai.net.w1.shape = <<6, 8>>
    /\ ml_ai.net.w2.shape = <<8, 4>>
    /\ ml_ai.net.b1.shape = <<1, 8>>
    /\ ml_ai.net.b2.shape = <<1, 4>>
    /\ \A i \in 1..4 : Params[i].bound <= ParamLimit * FeatureUnit
    /\ \A i \in 1..Len(ml_ai.net.trained) : Len(ml_ai.net.trained[i]) = 10
    /\ \A i \in 1..Len(Buffer) : Buffer[i].reward \in -1..10

\* the hundredth training pass has run, and every parameter has moved
C24_Witness ==
    /\ ml_ai.training_sessions = 100
    /\ Len(ml_ai.net.trained) = 100
    /\ Buffer = <<>>
    /\ \A i \in 1..4 : Params[i].bound > NewNet.b1.bound
    /\ ml_ai.net.w2.bound > NewNet.w2.bound

\* C25: in every experience record appended by MachineLearningAI.update the
\* fields state and next_state hold equal feature vectors, because both are
\* computed after the action has executed and before the agent's position is
\* integrated.
C25_StateEqualsNextState ==
    /\ \A i \in 1..Len(Buffer) : Buffer[i].state = Buffer[i].next_state
    /\ (AfterMLUpdate /\ Buffer # <<>>) =>
          \A s \in {get_state(Machine(PostActionEnemy, "none"), call.player)} :
              LastRecord.state = s.state

\* a jump has been recorded: both fields show the agent off the ground, which the
\* features the jump was chosen from did not
C25_Witness ==
    /\ AfterMLUpdate
    /\ call.predicted = 2
    /\ Buffer # <<>>
    /\ LastRecord.state = LastRecord.next_state
    /\ LastRecord.state[4] = 0
    /\ ml_ai.net.forward_input[1][4] = FeatureUnit

(***************************************************************************)
(* Properties of the patrol, checked under SpecPatrol                      *)
(***************************************************************************)
Displacement == Abs(enemy.x - enemy.start_x)

InPatrolRange == Displacement <= enemy.patrol_range

\* the enemy is patrolling and will go on patrolling
Patrolling == enemy.ai_type = "patrol"

\* C26: an enemy whose AI invokes patrol on every tick eventually comes back
\* within patrol_range of start_x from any horizontal displacement, including a
\* displacement larger than patrol_range left behind by an earlier chase.
C26_PatrolReturns == [](Patrolling => <>InPatrolRange)

\* the enemy is heading away from the start of its patrol
Outward == (enemy.x - enemy.start_x) * enemy.patrol_direction > 0

\* the enemy is where a patrol from inside the range takes it: within the range,
\* or one step beyond it and heading outward
InReach ==
    \/ InPatrolRange
    \/ Displacement <= enemy.patrol_range + enemy.speed /\ Outward

\* an enemy that patrols from inside its range stays within one step of it, and
\* is within the range again one tick after leaving it
PatrolKeepsReach ==
    [][(enemy.ai_type = "patrol" /\ InReach) => (InReach' /\ (~InPatrolRange => InPatrolRange'))]_vars

\* an enemy anywhere else turns round on every tick of patrol and stays where it
\* is, one step back and forth, beyond the range
PatrolStuck ==
    [][(enemy.ai_type = "patrol" /\ ~InReach) =>
           /\ enemy'.patrol_direction = -enemy.patrol_direction
           /\ Displacement' > enemy.patrol_range]_vars

(***************************************************************************)
(* Properties of the agent's flags, checked under SpecLife                 *)
(***************************************************************************)
\* the operation was invoked in the call that led to the state
Invoked(tr, name) == \E i \in 1..Len(tr) : tr[i].ev = "op" /\ tr[i].name = name

\* C27: once Enemy.jump has set on_ground to False, no operation of Enemy or of
\* the AI engine sets it back to True: over any later sequence of updates further
\* jump actions change nothing, so jump alters the vertical velocity at most once
\* in an enemy's lifetime and the on-ground feature stays 0.0 afterwards.
C27_NeverBackOnGround ==
    [][~enemy.on_ground =>
          /\ ~enemy'.on_ground
          /\ Invoked(trace', "jump") => enemy'.velocity_y = enemy.velocity_y
          /\ Len(Buffer') > Len(Buffer) => Buffer'[Len(Buffer')].state[4] = 0]_vars

\* the enemy has jumped in one update and been told to jump again in the next
C27_Witness ==
    /\ AfterMLUpdate
    /\ call.predicted = 2
    /\ Invoked(trace, "jump")
    /\ Len(Buffer) = 2
    /\ Buffer[1].action = 2 /\ Buffer[1].state[4] = 0
    /\ Buffer[2].action = 2 /\ Buffer[2].state[4] = 0
    /\ ~enemy.on_ground
    /\ enemy.velocity_y = -(10 * Scale)

\* C28: Enemy.update on an enemy that is not alive changes nothing: position,
\* velocity and the cached player are unchanged, no AI engine update runs (no
\* action invoked, no experience recorded), and once take_damage has set is_alive
\* to False no operation sets it to True again.
C28_DeadEnemyIsInert ==
    [][~enemy.is_alive =>
          /\ ~enemy'.is_alive
          /\ call'.op = "Enemy.update" =>
                /\ enemy' = enemy
                /\ ml_ai' = ml_ai
                /\ trace' = <<>>
                /\ result' = NoResult
                /\ <<ai_type', rule_based_ai', behavior_tree'>> =
                      <<ai_type, rule_based_ai, behavior_tree>>]_vars

\* a dead enemy has been updated with a player it never stored, after an update
\* that moved it while it lived
C28_Witness ==
    /\ call.op = "Enemy.update"
    /\ ~enemy.is_alive
    /\ enemy.health = 0
    /\ call.player.present
    /\ enemy.last_player = NoPlayer
    /\ enemy.x # enemy.start_x
    /\ trace = <<>>
    /\ ticks = 2

(***************************************************************************)
(* Properties of Platform.update, checked under SpecPlatform               *)
(***************************************************************************)
\* the platform's coordinate, and its start coordinate, on the movement axis
AxisPosition(p) == IF p.movement_type = "horizontal" THEN p.x ELSE p.y

AxisStart(p) == IF p.movement_type = "horizontal" THEN p.start_x ELSE p.start_y

\* C29: for a moving platform, after every Platform.update the position stays
\* within move_range of its start coordinate on the movement axis and differs
\* from the position before the update by at most move_speed (the platform
\* reverses at a bound without jumping).
C29_PlatformStaysAndSteps ==
    [][(call'.op = "Platform.update" /\ platform.is_moving) =>
          /\ Abs(AxisPosition(platform') - AxisStart(platform')) <= platform'.move_range
          /\ Abs(AxisPosition(platform') - AxisPosition(platform)) <= platform.move_speed]_vars

\* after every update a moving platform is within move_range of its start
PlatformWithinRange ==
    [][(call'.op = "Platform.update" /\ platform.is_moving) =>
          Abs(AxisPosition(platform') - AxisStart(platform')) <= platform'.move_range]_vars

\* an update that turns the platform round puts it at the far end of its range
PlatformJumpsAcross ==
    [][(call'.op = "Platform.update" /\ platform.is_moving
           /\ platform'.move_direction # platform.move_direction) =>
          AxisPosition(platform') =
              AxisStart(platform) - platform.move_range * platform.move_direction]_vars

(***************************************************************************)
(* Properties of the transitions, checked under SpecTransitions            *)
(***************************************************************************)
\* the manager's list holds the transition of the given identity
Held(tm, id) == \E i \in 1..Len(tm.transitions) : tm.transitions[i].id = id

\* the transition of the given identity, which the manager holds
TransitionOf(tm, id) ==
    tm.transitions[CHOOSE i \in 1..Len(tm.transitions) : tm.transitions[i].id = id]

\* the transition of the given identity is held by the manager and has been started
HeldActive(id) ==
    Held(transition_manager, id) /\ TransitionOf(transition_manager, id).is_active

\* a call of update returns True exactly when the transition is active and the
\* elapsed time accumulated since start reaches duration_ms in this call; the
\* transition is inactive from then on, and a call on an inactive transition
\* returns False and changes nothing
UpdateCompletesOnce ==
    [][call'.op = "ScreenTransition.update" =>
          \A t \in {TransitionOf(transition_manager, call'.id)} :
          \A u \in {TransitionOf(transition_manager', call'.id)} :
              /\ result'.value <=> (t.is_active /\ t.elapsed_ms + call'.delta_ms >= t.duration_ms)
              /\ t.is_active => t.elapsed_ms < t.duration_ms
              /\ result'.value => ~u.is_active
              /\ ~t.is_active => u = t]_vars

\* every started transition the manager holds leaves the manager's list
StartedIsRemoved ==
    \A id \in 1..MaxTransitions : [](HeldActive(id) => <>(~Held(transition_manager, id)))

\* C30: after ScreenTransition.start, repeated update calls with a positive delta
\* return True exactly once, on the first call where the accumulated elapsed time
\* reaches duration_ms, and False on every later call until start is called again;
\* every started transition held by TransitionManager is therefore removed from
\* its list after finitely many TransitionManager.update calls.
C30_CompletesOnceAndIsRemoved == UpdateCompletesOnce /\ StartedIsRemoved

\* a transition completed by a call of its own update stays in the manager's
\* list whatever the manager does
CompletedOutsideStays ==
    [][\A i \in 1..Len(Transitions) :
          (~Transitions[i].is_active /\ Transitions[i].starts = MaxStarts) =>
              \E j \in 1..Len(transition_manager'.transitions) :
                  transition_manager'.transitions[j] = Transitions[i]]_vars

\* a transition completed by a call of its own update is held by the manager
C30_CompletedOutside ==
    \E i \in 1..Len(Transitions) :
        /\ ~Transitions[i].is_active
        /\ Transitions[i].elapsed_ms >= Transitions[i].duration_ms
        /\ Transitions[i].starts > 0

\* the manager has removed a transition that it completed
C30_RemovedByManager ==
    /\ call.op = "TransitionManager.update"
    /\ Len(Transitions) < transition_manager.created

====
